---- MODULE Spec2Model ----
(***************************************************************************)
(* A model of the well-segment reconciliation code of complot              *)
(* (src/src/subscript/complot/complot.py, class SegmentPlot).              *)
(*                                                                         *)
(* Conventions.                                                            *)
(*  - Measured depths are integers counting tenths of a length unit, so    *)
(*    the 0.1 offsets and tolerances of the code are the integer 1.        *)
(*  - Rates are integers counting hundredths of a rate unit, so the        *)
(*    minimum rate 0.1 of the code is the integer 10.                      *)
(*  - A pandas DataFrame is a sequence of records (its rows, in row        *)
(*    order); a numpy array is a sequence.  Code indices are 0-based,      *)
(*    sequences here are 1-based: code row i is element i + 1.             *)
(*  - The per-well tables come from the schedule reader, which is not part *)
(*    of this code; they carry pandas' default index (labels 0..n-1).      *)
(*  - A Python exception that leaves a method is a result record whose     *)
(*    err field names the exception.                                       *)
(***************************************************************************)
EXTENDS Integers, Sequences, FiniteSets, TLC

VARIABLES
    pc,              \* the step the run is at
    welsegs_table,   \* self.welsegs_table: the WELSEGS rows of the well
    compsegs_table,  \* self.compsegs_table: the COMPSEGS rows of the well
    compdat_table,   \* self.compdat_table: the COMPDAT rows of the well
    eclipse_days,    \* self.eclipse_days: the report days of the summary
    call,            \* the arguments of the method call under study
    ret,             \* what that call returned, or the exception it raised
    again,           \* what the same call returned when made a second time
    eclipse,         \* self.eclipse: the summary vectors
    data_file,       \* self.data_file: the summary of each case file
    ifi,             \* main's inner loop variable, the case file at work
    passes,          \* the frames the completed passes have produced, in order
    information,     \* self.information: the rows of the INFORMATION table
    output_file,     \* self.output_file
    iw,              \* main's loop variable, the row of information at work
    tubing_segment,  \* self.tubing_segment
    device_segment,  \* self.device_segment
    annulus_segment, \* self.annulus_segment
    my_days,         \* self.my_days
    my_days_idx,     \* self.my_days_idx
    df_annulus_zone, \* self.df_annulus_zone
    df_output,       \* self.df_output
    df_export,       \* main's df_export
    csv,             \* the rows written to output_file
    exit,            \* the exception that ended main, and the call that raised it
    trace            \* the calls main has made, in order

schedule_vars == <<welsegs_table, compsegs_table, compdat_table>>

well_vars == <<tubing_segment, device_segment, annulus_segment, my_days>>

main_vars ==
    <<eclipse, data_file, ifi, passes, information, output_file, iw, tubing_segment,
      device_segment, annulus_segment, my_days, my_days_idx, df_annulus_zone,
      df_output, df_export, csv, exit, trace>>

vars ==
    <<pc, welsegs_table, compsegs_table, compdat_table, eclipse_days, call, ret, again,
      eclipse, data_file, ifi, passes, information, output_file, iw, tubing_segment,
      device_segment, annulus_segment, my_days, my_days_idx, df_annulus_zone,
      df_output, df_export, csv, exit, trace>>

(***************************************************************************)
(* Bounds of the model.                                                    *)
(***************************************************************************)
MaxComp == 4      \* most COMPSEGS entries of a well
MaxDepth == 2     \* deepest interval bound, in tenths
MaxRows == 2      \* most WELSEGS rows handed to one get_md call
MaxAnnulus == 3   \* most WELSEGS rows of the annulus layer
MaxDay == 3       \* latest report day
MaxReq == 2       \* most days requested in the DAYS column
WellSize == 3     \* segments in each layer of the well main runs on
MaxRate == 1      \* largest base rate of a summary vector
MaxInfo == 2      \* most rows of the INFORMATION table
MaxFile == 2      \* most summary files of one run
MaxOffset == 2    \* largest gap between a device and its annulus segment, in tenths

(***************************************************************************)
(* Generic helpers.                                                        *)
(***************************************************************************)
Range(s) == {s[i] : i \in 1..Len(s)}

Min(S) == CHOOSE x \in S : \A y \in S : x <= y

Max(S) == CHOOSE x \in S : \A y \in S : y <= x

SeqsUpTo(S, n) == UNION {[1..k -> S] : k \in 0..n}

NoValue == "none"

\* np.arange(start, end + 1, 1)
Arange(start, end) ==
    [i \in 1..(IF end < start THEN 0 ELSE end - start + 1) |-> start + i - 1]

RECURSIVE SortedSeq(_)
SortedSeq(S) == IF S = {} THEN <<>> ELSE <<Min(S)>> \o SortedSeq(S \ {Min(S)})

(***************************************************************************)
(* Program constants.                                                      *)
(***************************************************************************)
device_interval == 1    \* get_md(..., device_interval=0.1), in tenths

annulus_interval == 1   \* get_md(..., annulus_interval=0.1), in tenths

(***************************************************************************)
(* get_md, lines 631-645: the WELSEGS rows of the well, renamed, then the  *)
(* rows whose Segment is in the segment argument, in table order.          *)
(***************************************************************************)
RenameWelsegs(row) ==
    [Segment |-> row.TUBINGSEGMENT, MD |-> row.TUBINGMD, DIAMETER |-> row.TUBINGID]

WelsegsIsin(table, segment) ==
    LET renamed == [i \in 1..Len(table) |-> RenameWelsegs(table[i])]
        InSegment(row) == row.Segment \in Range(segment)
    IN SelectSeq(renamed, InSegment)

(***************************************************************************)
(* get_md, lines 651-677: the walk over the COMPSEGS rows that finds the   *)
(* first row (a_row) and the last row (zrow) of the requested lateral.     *)
(* The walk's state is (idx, i_lateral, a_row, zrow); zrow is -1 while the *)
(* code has not assigned it.                                               *)
(***************************************************************************)
NewLateralAt(comp, idx) ==
    LET end_md_branch == comp[idx + 1].ENDMD
    IN /\ comp[idx + 2].STARTMD < end_md_branch
       /\ comp[idx + 3].STARTMD < end_md_branch
       /\ comp[idx + 4].STARTMD < end_md_branch

RECURSIVE BranchWalk(_, _, _, _, _, _)
BranchWalk(comp, lateral, idx, i_lateral, a_row, zrow) ==
    IF idx >= Len(comp)
    THEN [a_row |-> a_row, zrow |-> zrow, found |-> FALSE]
    ELSE IF idx < Len(comp) - 3
    THEN IF NewLateralAt(comp, idx)
         THEN IF i_lateral + 1 = lateral
              THEN [a_row |-> a_row, zrow |-> idx, found |-> TRUE]
              ELSE BranchWalk(comp, lateral, idx + 1, i_lateral + 1, idx + 1, idx)
         ELSE BranchWalk(comp, lateral, idx + 1, i_lateral, a_row, zrow)
    ELSE IF i_lateral + 1 = lateral
         THEN [a_row |-> a_row, zrow |-> Len(comp) - 1, found |-> TRUE]
         ELSE BranchWalk(comp, lateral, idx + 1, i_lateral + 1, a_row, Len(comp) - 1)

(***************************************************************************)
(* get_md, line 678: compsegs.loc[a_row : zrow + 1, :].  loc slices by     *)
(* index label and includes both ends; the labels are 0..n-1, so the       *)
(* slice is the rows at positions a_row..zrow+1 that exist.                *)
(***************************************************************************)
LocSlice(comp, first_label, last_label) ==
    LET lo == IF first_label < 0 THEN 0 ELSE first_label
        hi == IF last_label > Len(comp) - 1 THEN Len(comp) - 1 ELSE last_label
    IN IF hi < lo THEN <<>> ELSE SubSeq(comp, lo + 1, hi + 1)

SelectLateral(comp, lateral) ==
    LET w == BranchWalk(comp, lateral, 0, 0, 0, -1)
    IN LocSlice(comp, w.a_row, w.zrow + 1)

(***************************************************************************)
(* get_md, lines 683-688: the depth looked up for a row of each section.   *)
(***************************************************************************)
LookupDepth(section, md) ==
    CASE section = "tubing" -> md
      [] section = "device" -> md - device_interval
      [] section = "annulus" -> md - annulus_interval

(***************************************************************************)
(* get_md, lines 701-715: np.argwhere((start_md <= imd) & (imd <= end_md)) *)
(* gives the matching positions in increasing order; idx[0] is the first.  *)
(***************************************************************************)
ArgwhereOpenEnd(comp, imd) ==
    {j \in 1..Len(comp) : comp[j].STARTMD <= imd /\ imd < comp[j].ENDMD}

Argwhere(comp, imd) ==
    {j \in 1..Len(comp) : comp[j].STARTMD <= imd /\ imd <= comp[j].ENDMD}

\* The row carries the depth looked up.
MergeRowShifted(row, comp, imd) ==
    LET idx == Min(Argwhere(comp, imd))
    IN [Segment |-> row.Segment, MD |-> imd, DIAMETER |-> row.DIAMETER,
        STARTMD |-> comp[idx].STARTMD, ENDMD |-> comp[idx].ENDMD,
        I |-> comp[idx].I, J |-> comp[idx].J, K |-> comp[idx].K]

MergeRow(row, comp, imd) ==
    LET idx == Min(Argwhere(comp, imd))
    IN [Segment |-> row.Segment, MD |-> row.MD, DIAMETER |-> row.DIAMETER,
        STARTMD |-> comp[idx].STARTMD, ENDMD |-> comp[idx].ENDMD,
        I |-> comp[idx].I, J |-> comp[idx].J, K |-> comp[idx].K]

\* The rows that miss every interval, by position in the selection.
Misses(welsegs, comp, section) ==
    {i \in 1..Len(welsegs) : Argwhere(comp, LookupDepth(section, welsegs[i].MD)) = {}}

\* The loop of line 701 raises at the first row that misses (line 712).
LastMiss(misses) == Max(misses)

FirstMiss(misses) == Min(misses)

(***************************************************************************)
(* get_md, lines 722-738: the left join with the COMPDAT rows of the well  *)
(* on (I, J, K).  A left row is followed by one joined row per matching    *)
(* COMPDAT row, in COMPDAT order; a left row without a match is kept once  *)
(* with CF and KH missing ("nan").                                         *)
(***************************************************************************)
SameCell(a, b) == a.I = b.I /\ a.J = b.J /\ a.K = b.K

WithStatic(row, cf, kh) ==
    [Segment |-> row.Segment, MD |-> row.MD, DIAMETER |-> row.DIAMETER,
     STARTMD |-> row.STARTMD, ENDMD |-> row.ENDMD,
     I |-> row.I, J |-> row.J, K |-> row.K, CF |-> cf, KH |-> kh]

JoinRow(row, compdat) ==
    LET Matches(c) == SameCell(c, row)
        hits == SelectSeq(compdat, Matches)
    IN IF Len(hits) = 0
       THEN <<WithStatic(row, "nan", "nan")>>
       ELSE [h \in 1..Len(hits) |-> WithStatic(row, hits[h].CF, hits[h].KH)]

RECURSIVE LeftMerge(_, _)
LeftMerge(rows, compdat) ==
    IF rows = <<>> THEN <<>>
    ELSE JoinRow(Head(rows), compdat) \o LeftMerge(Tail(rows), compdat)

(***************************************************************************)
(* get_md as a whole, lines 612-739.  The result also shows the local      *)
(* compsegs, the COMPSEGS rows the lookup ran against.                     *)
(***************************************************************************)
\* line 646: the rows of the table that isin keeps
WelsegsKept(table, segment) ==
    LET InSegment(row) == row.TUBINGSEGMENT \in Range(segment)
    IN SelectSeq(table, InSegment)

\* The method works on the table itself.
CopyNone(content, local) == local

\* lines 633 and 648: the method works on content.copy(deep=True) and on
\* the frames it selects from the copy (local); the content of the table
\* stays what it was
CopyDeep(content, local) == content

get_md(table, compsegs, compdat, segment, lateral, section) ==
    LET welsegs == WelsegsIsin(table, segment)
        walk == BranchWalk(compsegs, lateral, 0, 0, 0, -1)
        comp == SelectLateral(compsegs, lateral)
        misses == Misses(welsegs, comp, section)
        merged == [i \in 1..Len(welsegs) |->
                      MergeRow(welsegs[i], comp, LookupDepth(section, welsegs[i].MD))]
    IN IF walk.zrow = -1
       THEN \* no COMPSEGS row: zrow is read at line 678 before any assignment
            [err |-> "UnboundLocalError", segment |-> NoValue, rows |-> <<>>,
             compsegs |-> <<>>]
       ELSE IF misses # {}
       THEN [err |-> "SegmentNotInGrid",
             segment |-> welsegs[FirstMiss(misses)].Segment,
             rows |-> <<>>, compsegs |-> comp]
       ELSE [err |-> NoValue, segment |-> NoValue,
             rows |-> LeftMerge(merged, compdat), compsegs |-> comp]

(***************************************************************************)
(* get_packer, lines 545-582.  The rows are the WELSEGS rows whose segment *)
(* is in annulus_segment, in table order.                                  *)
(***************************************************************************)
AnnulusIsin(table, segment) ==
    LET InSegment(row) == row.TUBINGSEGMENT \in Range(segment)
    IN SelectSeq(table, InSegment)

\* lines 557-560: row i (i >= 2 here) opens a new zone
NewZoneAt(welsegs, i) == welsegs[i].TUBINGOUTLET # welsegs[i - 1].TUBINGSEGMENT

\* lines 555-568: annulus_zone
RECURSIVE AnnulusZone(_, _)
AnnulusZone(welsegs, i) ==
    IF i = 1 THEN 1
    ELSE IF NewZoneAt(welsegs, i)
         THEN AnnulusZone(welsegs, i - 1) + 1
         ELSE AnnulusZone(welsegs, i - 1)

PackerRow(row) == [PACKERMD |-> row.TUBINGMD, PACKERTVD |-> row.TUBINGTVD]

\* The start of the new zone put before the end of the old one.
RECURSIVE PackerRowsSwapped(_, _)
PackerRowsSwapped(welsegs, i) ==
    IF i = 1 THEN <<PackerRow(welsegs[1])>>
    ELSE PackerRowsSwapped(welsegs, i - 1)
         \o (IF NewZoneAt(welsegs, i)
             THEN <<PackerRow(welsegs[i]), PackerRow(welsegs[i - 1])>>
             ELSE <<>>)
         \o (IF i = Len(welsegs) THEN <<PackerRow(welsegs[i])>> ELSE <<>>)

\* lines 550-551 and 556-571: packer_md and packer_tvd after the rows up to i
RECURSIVE PackerRows(_, _)
PackerRows(welsegs, i) ==
    IF i = 1 THEN <<PackerRow(welsegs[1])>>
    ELSE PackerRows(welsegs, i - 1)
         \o (IF NewZoneAt(welsegs, i)
             THEN <<PackerRow(welsegs[i - 1]), PackerRow(welsegs[i])>>
             ELSE <<>>)
         \o (IF i = Len(welsegs) THEN <<PackerRow(welsegs[i])>> ELSE <<>>)

get_packer(table, segment) ==
    IF Len(segment) > 1
    THEN LET welsegs == AnnulusIsin(table, segment)
         IN IF Len(welsegs) = 0
            THEN \* welsegs["TUBINGMD"].iloc[0] on an empty frame, line 550
                 [err |-> "IndexError", df_packer |-> <<>>, df_annulus_zones |-> <<>>]
            ELSE [err |-> NoValue,
                  df_packer |-> PackerRows(welsegs, Len(welsegs)),
                  df_annulus_zones |->
                      [i \in 1..Len(welsegs) |->
                          [SEGMENT |-> welsegs[i].TUBINGSEGMENT,
                           MD |-> welsegs[i].TUBINGMD,
                           ANNULUS_ZONE |-> AnnulusZone(welsegs, i)]]]
    ELSE [err |-> NoValue, df_packer |-> <<>>, df_annulus_zones |-> <<>>]

(***************************************************************************)
(* get_day_index, lines 584-610.  Indices are the 0-based positions of the *)
(* code.  np.argsort sorts with its default kind, which is not stable: of  *)
(* several days at the same smallest distance any one may come first.      *)
(***************************************************************************)
Abs(x) == IF x < 0 THEN -x ELSE x

DifSigned(days, i, day) == days[i + 1] - day

\* line 606: dif = abs(self.eclipse_days - day), at index i
Dif(days, i, day) == Abs(days[i + 1] - day)

\* line 598: np.argwhere(self.eclipse_days == day)
ExactDays(days, day) == {i \in 0..(Len(days) - 1) : days[i + 1] = day}

\* lines 607-609: the indices np.argsort(dif) may put first
NearestDays(days, day) ==
    {i \in 0..(Len(days) - 1) :
        \A j \in 0..(Len(days) - 1) : Dif(days, i, day) <= Dif(days, j, day)}

\* lines 598-609: the indices day_idx[i] may get for one requested day
DayChoices(days, day) ==
    IF ExactDays(days, day) # {}
    THEN {Min(ExactDays(days, day))}
    ELSE NearestDays(days, day)

\* lines 603-605: one warning is printed per day without an exact match
DayWarnings(days, list_of_days) ==
    Cardinality({i \in 1..Len(list_of_days) : ExactDays(days, list_of_days[i]) = {}})

\* the arrays get_day_index may return
DayIndexResults(days, list_of_days) ==
    {idx \in [1..Len(list_of_days) -> 0..(Len(days) - 1)] :
        \A i \in 1..Len(list_of_days) : idx[i] \in DayChoices(days, list_of_days[i])}

(***************************************************************************)
(* get_info_per_well, lines 447-508.  A segment column of the INFORMATION  *)
(* table is the text '1*' (star) or text whose pieces between dashes are   *)
(* parts; the pieces are whole numbers.                                    *)
(***************************************************************************)
Zeros1 == <<0>>    \* np.zeros(1)

Star == [star |-> TRUE, parts |-> <<>>]

Text(parts) == [star |-> FALSE, parts |-> parts]

\* lines 447-448 and the .iloc[0] of lines 450, 465, 485, 499: the first row
\* of the table for the well and the lateral
InfoRow(table, well, lateral) ==
    LET hits == {i \in 1..Len(table) :
                    table[i].WELL = well /\ table[i].LATERAL = lateral}
    IN table[Min(hits)]

InfoFailure(err, msg) ==
    [err |-> err, msg |-> msg, tubing_segment |-> <<>>, device_segment |-> <<>>,
     annulus_segment |-> <<>>, my_days |-> <<>>, warnings |-> 0]

\* The exit status of the process when the failure leaves main: sys.exit()
\* of line 459 is called without an argument, which is status 0; an
\* exception nothing catches ends the interpreter with status 1.
ExitStatus(err) == IF err = "SystemExit" THEN 0 ELSE 1

\* lines 451-463, 466-473, 486-493: the array of one segment column
SegmentArray(content) ==
    IF content.star THEN Zeros1 ELSE Arange(content.parts[1], content.parts[2])

\* A text of more than two parts passes too.
WellFormedOrLong(content) == content.star \/ Len(content.parts) >= 2

\* lines 451-455, 466-469, 486-489: the text is '1*' or splits at "-" in
\* two parts
WellFormed(content) == content.star \/ Len(content.parts) = 2

\* No check on the two lengths.
DeviceCountIgnored(tubing, device) == FALSE

\* lines 480-483, the check on the two lengths; it is made only when the
\* device column is not '1*'
DeviceCountDiffers(tubing, device) ==
    Len(tubing) # Len(device)

get_info_per_well(table, well, lateral) ==
    LET info == InfoRow(table, well, lateral)
        tubing == SegmentArray(info.TUBINGSEGMENT)
        device == SegmentArray(info.DEVICESEGMENT)
        annulus == SegmentArray(info.ANNULUSSEGMENT)
    IN IF ~WellFormed(info.TUBINGSEGMENT)
       THEN \* lines 456-459: the message is printed and sys.exit() is called
            \* without a status
            InfoFailure("SystemExit", "Tubing Segment must be defined")
       ELSE IF ~WellFormed(info.DEVICESEGMENT)
       THEN InfoFailure("ValueError", "Device Segment must be defined")
       ELSE IF ~info.DEVICESEGMENT.star /\ DeviceCountDiffers(tubing, device)
       THEN InfoFailure("ValueError", "the number of device segments")
       ELSE IF ~WellFormed(info.ANNULUSSEGMENT)
       THEN InfoFailure("ValueError", "Annulus Segment must be defined")
       ELSE [err |-> NoValue, msg |-> NoValue,
             tubing_segment |-> tubing,
             device_segment |-> device,
             annulus_segment |-> annulus,
             my_days |-> IF info.DAYS.star THEN Zeros1 ELSE info.DAYS.parts,
             warnings |-> IF info.DAYS.star THEN 1 ELSE 0]

(***************************************************************************)
(* The summary vectors.  numpy_vector(keyword:well:segment)[idx] of the    *)
(* summary reader: the store holds the pairs of a keyword and a segment it *)
(* has a vector for and a base rate per segment; a read of another pair    *)
(* raises KeyError; the value of a vector is the base rate of its          *)
(* segment moved by an amount of its own for the keyword and for the       *)
(* report step, so that vectors of different keywords or steps differ.     *)
(***************************************************************************)
list_keywords == <<"SPR", "SPRD", "SOFR", "SWFR", "SGFRF">>

KeywordShift(keyword) ==
    CASE keyword = "SPR" -> 500
      [] keyword = "SPRD" -> 400
      [] keyword = "SOFR" -> 4
      [] keyword = "SWFR" -> 5
      [] keyword = "SGFRF" -> 200

NumpyVector(summary, keyword, seg, idx) ==
    summary.rate[seg] + KeywordShift(keyword) + 10 * idx

\* lines 773-780: the keywords with a vector for segment 1, in list order
KwValid(summary) ==
    LET Found(keyword) == <<keyword, 1>> \in summary.vectors
    IN SelectSeq(list_keywords, Found)

(***************************************************************************)
(* get_data, lines 760-1209.  self is the record of the attributes the     *)
(* method reads.  A data frame is the sequence of its rows; the values of  *)
(* the keyword columns of a row are the function val.  The date of report  *)
(* step idx is written idx.                                                *)
(***************************************************************************)
Failed(err) == [err |-> err, rows |-> <<>>]

Rows(rows) == [err |-> NoValue, rows |-> rows]

(***************************************************************************)
(* The derived columns SWCT and SGOR, lines 844-860, 920-935, 980-994 and  *)
(* 1138-1153.  A quotient num / (den + 0.00001) is kept as its two terms;  *)
(* a column the try block could not make is missing from the frame.        *)
(***************************************************************************)
min_rate == 10

Zero == [kind |-> "zero", num |-> 0, den |-> 0]

Quotient(num, den) == [kind |-> "quotient", num |-> num, den |-> den]

Missing == [kind |-> "missing", num |-> 0, den |-> 0]

\* No floor on the water cut.
NeverBelowMinRate(water, oil) == FALSE

\* The floor on each rate by itself.
EachBelowMinRate(water, oil) == Abs(water) < min_rate /\ Abs(oil) < min_rate

BelowMinRate(water, oil) == Abs(water) + Abs(oil) < min_rate

WaterCut(val) ==
    IF ~({"SWFR", "SOFR"} \subseteq DOMAIN val) THEN Missing
    ELSE IF BelowMinRate(val["SWFR"], val["SOFR"]) THEN Zero
    ELSE Quotient(Abs(val["SWFR"]), Abs(val["SWFR"]) + Abs(val["SOFR"]))

GasOilRatio(val) ==
    IF ~({"SGFRF", "SOFR"} \subseteq DOMAIN val) THEN Missing
    ELSE Quotient(Abs(val["SGFRF"]), Abs(val["SOFR"]))

FrameRow(section, idx, seg, md_row, val) ==
    [SECTION |-> section, DATE |-> idx, SEGMENT |-> seg, MD |-> md_row.MD,
     STARTMD |-> md_row.STARTMD, ENDMD |-> md_row.ENDMD,
     CF |-> md_row.CF, KH |-> md_row.KH, DIAMETER |-> md_row.DIAMETER,
     val |-> val, SWCT |-> WaterCut(val), SGOR |-> GasOilRatio(val)]

\* df_all[df_all["DATE"] == date][df_all["SECTION"] == section]
Related(df_all, idx, section) ==
    LET Pick(row) == row.DATE = idx /\ row.SECTION = section
    IN SelectSeq(df_all, Pick)

RECURSIVE Flatten(_)
Flatten(frames) ==
    IF frames = <<>> THEN <<>> ELSE Head(frames) \o Flatten(Tail(frames))

\* what np.column_stack and the vector reads of one section pass need:
\* columns of one length, and a vector for every segment read
StackError(self, n_full, segs, md, raw_keywords) ==
    IF md.err # NoValue THEN md.err
    ELSE IF Len(md.rows) # Len(segs) \/ n_full # Len(segs) THEN "ValueError"
    ELSE IF \E keyword \in raw_keywords : \E i \in 1..Len(segs) :
               <<keyword, segs[i]>> \notin self.eclipse.vectors
    THEN "KeyError"
    ELSE NoValue

\* lines 828-842 and 971-978: the vectors read as they are
RawFrame(self, section, idx, segs, md, kw_valid) ==
    [i \in 1..Len(segs) |->
        FrameRow(section, idx, segs[i], md.rows[i],
                 [k \in Range(kw_valid) |-> NumpyVector(self.eclipse, k, segs[i], idx)])]

\* the frames of a section of raw vectors, one per requested report step
RawFrames(self, section, segs, md, kw_valid) ==
    IF StackError(self, Len(segs), segs, md, Range(kw_valid)) # NoValue
    THEN Failed(StackError(self, Len(segs), segs, md, Range(kw_valid)))
    ELSE Rows(Flatten([x \in 1..Len(self.my_days_idx) |->
             RawFrame(self, section, self.my_days_idx[x], segs, md, kw_valid)]))

\* lines 795-865: the Device section
DeviceSection(self, lateral, kw_valid) ==
    RawFrames(self, "Device", self.device_segment,
              get_md(self.welsegs_table, self.compsegs_table, self.compdat_table,
                     self.device_segment, lateral, "device"),
              kw_valid)

\* The sum of a device inflow and its deeper neighbour alone.
PairSum(rate_inflow, k) ==
    IF k > Len(rate_inflow) THEN 0
    ELSE IF k = Len(rate_inflow) THEN rate_inflow[k]
    ELSE rate_inflow[k + 1] + rate_inflow[k]

\* lines 914-918: value[isq] for isq = len(rate_inflow) - 1 down to 0; the
\* entries of value past the inflows keep their zero
RECURSIVE ReverseCumSum(_, _)
ReverseCumSum(rate_inflow, k) ==
    IF k > Len(rate_inflow) THEN 0
    ELSE IF k = Len(rate_inflow) THEN rate_inflow[k]
    ELSE ReverseCumSum(rate_inflow, k + 1) + rate_inflow[k]

\* lines 911-913: the device inflows of the date
DeviceInflow(df_all, idx, keyword) ==
    [i \in 1..Len(Related(df_all, idx, "Device")) |->
        Related(df_all, idx, "Device")[i].val[keyword]]

\* lines 901-919: the keyword columns of one Tubing frame
TubingVal(self, df_all, idx, seg, k, kw_valid) ==
    [keyword \in Range(kw_valid) |->
        IF keyword # "SGFRF"
        THEN NumpyVector(self.eclipse, keyword, seg, idx)
        ELSE ReverseCumSum(DeviceInflow(df_all, idx, keyword), k)]

\* one Tubing frame per requested report step; bound says whether df_all has
\* been assigned by the Device section
TubingFrames(self, kw_valid, bound, df_all, segs, md) ==
    IF StackError(self, Len(segs), segs, md, Range(kw_valid) \ {"SGFRF"}) # NoValue
    THEN Failed(StackError(self, Len(segs), segs, md, Range(kw_valid) \ {"SGFRF"}))
    ELSE IF ~bound
    THEN \* df_all is read at line 911 or 937 before any assignment
         Failed("UnboundLocalError")
    ELSE IF /\ "SGFRF" \in Range(kw_valid)
            /\ \E x \in 1..Len(self.my_days_idx) :
                  Len(DeviceInflow(df_all, self.my_days_idx[x], "SGFRF")) > Len(segs)
    THEN \* value[isq] past the end of value, line 916
         Failed("IndexError")
    ELSE Rows(Flatten([x \in 1..Len(self.my_days_idx) |->
             [i \in 1..Len(segs) |->
                 FrameRow("Tubing", self.my_days_idx[x], segs[i], md.rows[i],
                          TubingVal(self, df_all, self.my_days_idx[x],
                                    segs[i], i, kw_valid))]]))

\* lines 867-937: the Tubing section
TubingSection(self, lateral, kw_valid, bound, df_all) ==
    TubingFrames(self, kw_valid, bound, df_all, self.tubing_segment,
                 get_md(self.welsegs_table, self.compsegs_table, self.compdat_table,
                        self.tubing_segment, lateral, "tubing"))

\* lines 939-997: the Annulus section
AnnulusSection(self, lateral, kw_valid) ==
    RawFrames(self, "Annulus", self.annulus_segment,
              get_md(self.welsegs_table, self.compsegs_table, self.compdat_table,
                     self.annulus_segment, lateral, "annulus"),
              kw_valid)

\* lines 1060-1065: rate_inflow - rate_upstream, rate_upstream being
\* rate_inflow[1:] with 0.0 appended
UpstreamKept(rate, k) == IF k = Len(rate) THEN rate[k] ELSE rate[k + 1]

Upstream(rate, k) == IF k = Len(rate) THEN 0 ELSE rate[k + 1]

\* The difference to the position above.
FirstDifferenceBackward(rate_inflow) ==
    [k \in 1..Len(rate_inflow) |->
        rate_inflow[k] - (IF k = 1 THEN 0 ELSE rate_inflow[k - 1])]

FirstDifference(rate_inflow) ==
    [k \in 1..Len(rate_inflow) |-> rate_inflow[k] - Upstream(rate_inflow, k)]

\* lines 1067-1079: MD and the keyword column of the rows of one section
SectionRates(df_all, idx, section, keyword) ==
    [i \in 1..Len(Related(df_all, idx, section)) |->
        [MD |-> Related(df_all, idx, section)[i].MD,
         rate |-> Related(df_all, idx, section)[i].val[keyword]]]

\* lines 1080-1087: pd.merge(df_annulus, df_annulus_zone, how="left") on MD
\* and the column MD2; an annulus row without a zone row keeps a missing
\* zone, which line 1091 fills with 0
ZoneJoinRow(row, zones) ==
    LET SameMd(z) == z.MD = row.MD
        hits == SelectSeq(zones, SameMd)
    IN IF Len(hits) = 0
       THEN <<[MD |-> row.MD, ANNULUS |-> row.rate, ANNULUS_ZONE |-> 0, MD2 |-> row.MD]>>
       ELSE [h \in 1..Len(hits) |->
                [MD |-> row.MD, ANNULUS |-> row.rate,
                 ANNULUS_ZONE |-> hits[h].ANNULUS_ZONE, MD2 |-> row.MD]]

RECURSIVE ZoneMerge(_, _)
ZoneMerge(df_annulus, zones) ==
    IF df_annulus = <<>> THEN <<>>
    ELSE ZoneJoinRow(Head(df_annulus), zones) \o ZoneMerge(Tail(df_annulus), zones)

\* pd.merge_asof wants the keys of both frames in increasing order
MdSorted(frame) == \A i \in 1..(Len(frame) - 1) : frame[i].MD <= frame[i + 1].MD

\* The annulus row found is taken however deep it lies.
AsofForwardRowAny(device_row, df_annulus) ==
    LET later == {j \in 1..Len(df_annulus) : df_annulus[j].MD >= device_row.MD}
        found == df_annulus[Min(later)]
    IN IF later = {}
       THEN [MD |-> device_row.MD, DEVICE |-> device_row.rate,
             ANNULUS |-> 0, ANNULUS_ZONE |-> 0]
       ELSE [MD |-> device_row.MD, DEVICE |-> device_row.rate,
             ANNULUS |-> found.ANNULUS, ANNULUS_ZONE |-> found.ANNULUS_ZONE]

\* lines 1088-1103: merge_asof(direction="forward"), fillna(0), and the
\* annulus rate and zone dropped where the annulus row found lies more
\* than 0.1 deeper than the device row
AsofForwardRow(device_row, df_annulus) ==
    LET later == {j \in 1..Len(df_annulus) : df_annulus[j].MD >= device_row.MD}
        found == df_annulus[Min(later)]
    IN IF later = {}
       THEN [MD |-> device_row.MD, DEVICE |-> device_row.rate,
             ANNULUS |-> 0, ANNULUS_ZONE |-> 0]
       ELSE IF device_row.MD < found.MD2 - 1
       THEN [MD |-> device_row.MD, DEVICE |-> device_row.rate,
             ANNULUS |-> 0, ANNULUS_ZONE |-> 0]
       ELSE [MD |-> device_row.MD, DEVICE |-> device_row.rate,
             ANNULUS |-> found.ANNULUS, ANNULUS_ZONE |-> found.ANNULUS_ZONE]

AsofForward(df_device, df_annulus) ==
    [i \in 1..Len(df_device) |-> AsofForwardRow(df_device[i], df_annulus)]

\* line 1104: unique() keeps the order of first appearance
RECURSIVE Unique(_)
Unique(values) ==
    IF values = <<>> THEN <<>>
    ELSE LET Other(v) == v # Head(values)
         IN <<Head(values)>> \o Unique(SelectSeq(Tail(values), Other))

ZonesOf(df_merge) == Unique([i \in 1..Len(df_merge) |-> df_merge[i].ANNULUS_ZONE])

\* The first row of a zone is taken as the others are.
ZoneRatePlain(df_temp, izone, k) ==
    IF izone = 0 THEN df_temp[k].DEVICE
    ELSE LET rate_annulus_out == [i \in 1..Len(df_temp) |-> df_temp[i].ANNULUS]
         IN rate_annulus_out[k] - Upstream(rate_annulus_out, k) + df_temp[k].DEVICE

\* lines 1105-1122: the inflow of the rows of one annulus zone
ZoneRate(df_temp, izone, k) ==
    IF izone = 0 THEN df_temp[k].DEVICE
    ELSE LET rate_annulus_out == [i \in 1..Len(df_temp) |-> df_temp[i].ANNULUS]
         IN IF k = 1
            THEN df_temp[k].DEVICE - Upstream(rate_annulus_out, k)
            ELSE rate_annulus_out[k] - Upstream(rate_annulus_out, k) + df_temp[k].DEVICE

ZoneRows(df_temp, izone) ==
    [k \in 1..Len(df_temp) |-> [MD |-> df_temp[k].MD, rate |-> ZoneRate(df_temp, izone, k)]]

ZoneReservoir(df_merge, izone) ==
    LET InZone(row) == row.ANNULUS_ZONE = izone
    IN ZoneRows(SelectSeq(df_merge, InZone), izone)

\* line 1130: sort_values(by=["MD"]); rows of one depth keep their order
\* here, the device depths of a well being distinct
RECURSIVE InsertByMd(_, _)
InsertByMd(row, sorted) ==
    IF sorted = <<>> THEN <<row>>
    ELSE IF row.MD < Head(sorted).MD THEN <<row>> \o sorted
    ELSE <<Head(sorted)>> \o InsertByMd(row, Tail(sorted))

RECURSIVE SortByMd(_)
SortByMd(frame) ==
    IF frame = <<>> THEN <<>>
    ELSE InsertByMd(frame[Len(frame)], SortByMd(SubSeq(frame, 1, Len(frame) - 1)))

\* lines 1105-1131: df_reservoir, the zones one after the other, sorted
ZoneFrames(df_merge, annulus_zone) ==
    SortByMd(Flatten([z \in 1..Len(annulus_zone) |-> ZoneReservoir(df_merge, annulus_zone[z])]))

ReservoirByZone(df_merge) == ZoneFrames(df_merge, ZonesOf(df_merge))

\* lines 1133-1136: merge_asof(direction="nearest"): the last row not
\* deeper and the first row not shallower; the nearer of the two, the
\* first of them when equally near
AsofNearest(md, df_reservoir) ==
    LET before == {j \in 1..Len(df_reservoir) : df_reservoir[j].MD <= md}
        after == {j \in 1..Len(df_reservoir) : df_reservoir[j].MD >= md}
    IN IF before = {} /\ after = {} THEN 0
       ELSE IF after = {} THEN df_reservoir[Max(before)].rate
       ELSE IF before = {} THEN df_reservoir[Min(after)].rate
       ELSE IF md - df_reservoir[Max(before)].MD <= df_reservoir[Min(after)].MD - md
       THEN df_reservoir[Max(before)].rate
       ELSE df_reservoir[Min(after)].rate

NearestRates(md, df_reservoir) ==
    [i \in 1..Len(md.rows) |-> AsofNearest(md.rows[i].MD, df_reservoir)]

Balance(df_device, df_annulus, md) ==
    IF ~MdSorted(df_device) \/ ~MdSorted(df_annulus) \/ ~MdSorted(md.rows)
    THEN [err |-> "ValueError", values |-> <<>>]
    ELSE [err |-> NoValue,
          values |-> NearestRates(md, ReservoirByZone(AsofForward(df_device, df_annulus)))]

\* lines 1067-1136: the reservoir inflow of a well with an annulus layer
AnnulusBalance(self, df_all, idx, keyword, md) ==
    IF self.df_annulus_zone = <<>>
    THEN \* the merge on MD with pd.DataFrame(), which has no column MD
         [err |-> "KeyError", values |-> <<>>]
    ELSE Balance(SectionRates(df_all, idx, "Device", keyword),
                 ZoneMerge(SectionRates(df_all, idx, "Annulus", keyword),
                           self.df_annulus_zone),
                 md)

\* lines 1058-1065: the reservoir inflow of a well without an annulus layer
TubingBalance(rate_inflow, md) ==
    IF Len(rate_inflow) # Len(md.rows)
    THEN [err |-> "ValueError", values |-> <<>>]
    ELSE [err |-> NoValue,
          values |-> FirstDifference([i \in 1..Len(rate_inflow) |-> rate_inflow[i].rate])]

\* lines 1050-1136: one keyword column of one Reservoir frame
ReservoirColumn(self, df_all, idx, keyword, md) ==
    IF keyword \in {"SPR", "SPRD"}
    THEN [err |-> NoValue, values |-> [i \in 1..Len(md.rows) |-> 0]]
    ELSE IF Len(self.annulus_segment) = 1
    THEN TubingBalance(SectionRates(df_all, idx, "Tubing", keyword), md)
    ELSE AnnulusBalance(self, df_all, idx, keyword, md)

ReservoirColumns(self, kw_valid, df_all, md) ==
    [x \in 1..Len(self.my_days_idx) |->
        [keyword \in Range(kw_valid) |->
            ReservoirColumn(self, df_all, self.my_days_idx[x], keyword, md)]]

\* the frames of the columns, or the exception of the first column to fail
ReservoirRows(self, kw_valid, md, columns) ==
    LET failing == {f \in (1..Len(self.my_days_idx)) \X (1..Len(kw_valid)) :
                       columns[f[1]][kw_valid[f[2]]].err # NoValue}
        first == CHOOSE f \in failing :
                    \A g \in failing : f[1] < g[1] \/ (f[1] = g[1] /\ f[2] <= g[2])
    IN IF failing # {} THEN Failed(columns[first[1]][kw_valid[first[2]]].err)
       ELSE Rows(Flatten([x \in 1..Len(self.my_days_idx) |->
                [i \in 1..Len(self.tubing_segment) |->
                    FrameRow("Reservoir", self.my_days_idx[x], self.tubing_segment[i],
                             md.rows[i],
                             [keyword \in Range(kw_valid) |->
                                 columns[x][keyword].values[i]])]]))

ReservoirFrames(self, kw_valid, df_all, md) ==
    IF StackError(self, Len(self.device_segment), self.tubing_segment, md, {}) # NoValue
    THEN Failed(StackError(self, Len(self.device_segment), self.tubing_segment, md, {}))
    ELSE ReservoirRows(self, kw_valid, md, ReservoirColumns(self, kw_valid, df_all, md))

\* lines 1017-1154: the Reservoir section
ReservoirSection(self, lateral, kw_valid, df_all) ==
    ReservoirFrames(self, kw_valid, df_all,
                    get_md(self.welsegs_table, self.compsegs_table, self.compdat_table,
                           self.tubing_segment, lateral, "tubing"))

\* lines 1004-1012 and 1198-1205: a column that does not convert to numbers
\* is overwritten with 1.0e-10 in every row
Numeric(text) == text # "1*"

ConvertStatic(df_all) ==
    LET cf_ok == \A i \in 1..Len(df_all) : Numeric(df_all[i].CF)
        kh_ok == \A i \in 1..Len(df_all) : Numeric(df_all[i].KH)
    IN [i \in 1..Len(df_all) |->
           [df_all[i] EXCEPT !.CF = IF cf_ok THEN @ ELSE "1.0e-10",
                             !.KH = IF kh_ok THEN @ ELSE "1.0e-10"]]

\* lines 1004-1012, 1154 and 1198-1209: the columns are converted before
\* the Reservoir frames are appended and again after; self.df_output, or
\* the exception of the Reservoir section
Output(df_all, res) ==
    IF res.err # NoValue THEN Failed(res.err)
    ELSE Rows(ConvertStatic(ConvertStatic(df_all) \o res.rows))

\* the sections in the order the method runs them
InOrder(self, lateral, kw_valid, dev, tub, ann) ==
    IF dev.err # NoValue THEN Failed(dev.err)
    ELSE IF tub.err # NoValue THEN Failed(tub.err)
    ELSE IF ann.err # NoValue THEN Failed(ann.err)
    ELSE Output(dev.rows \o tub.rows \o ann.rows,
                ReservoirSection(self, lateral, kw_valid, dev.rows \o tub.rows \o ann.rows))

AfterDevice(self, lateral, kw_valid, dev) ==
    InOrder(self, lateral, kw_valid, dev,
              TubingSection(self, lateral, kw_valid,
                            Len(self.device_segment) > 1 /\ Len(self.my_days_idx) > 0,
                            dev.rows),
              IF Len(self.annulus_segment) > 1
              THEN AnnulusSection(self, lateral, kw_valid)
              ELSE Rows(<<>>))

get_data(self, lateral) ==
    AfterDevice(self, lateral, KwValid(self.eclipse),
                IF Len(self.device_segment) > 1
                THEN DeviceSection(self, lateral, KwValid(self.eclipse))
                ELSE Rows(<<>>))

(***************************************************************************)
(* The object before main has run: what the constructor leaves in the      *)
(* attributes the method runs below do not use.                            *)
(***************************************************************************)
NoSummary == [vectors |-> {}, rate |-> <<>>]

NoExit == [err |-> NoValue, op |-> NoValue, iw |-> 0]

ObjectIdle ==
    /\ eclipse = NoSummary
    /\ data_file = <<>>
    /\ ifi = 0
    /\ passes = <<>>
    /\ output_file = ""
    /\ iw = 0
    /\ tubing_segment = <<>>
    /\ device_segment = <<>>
    /\ annulus_segment = <<>>
    /\ my_days = <<>>
    /\ my_days_idx = <<>>
    /\ df_annulus_zone = <<>>
    /\ df_output = <<>>
    /\ df_export = <<>>
    /\ csv = <<>>
    /\ exit = NoExit
    /\ trace = <<>>

MainIdle == information = <<>> /\ ObjectIdle

(***************************************************************************)
(* The inputs of the get_md runs.                                          *)
(***************************************************************************)
\* Cells one depth step long, and the cell that spans the whole depth range.
Intervals ==
    {<<d, d + 1>> : d \in 0..(MaxDepth - 1)} \cup {<<0, MaxDepth>>}

\* A COMPSEGS table: entry i is cell (i, 1, 1) with the i-th interval.
CompsegsOf(ivs) ==
    [i \in 1..Len(ivs) |->
        [I |-> i, J |-> 1, K |-> 1, STARTMD |-> ivs[i][1], ENDMD |-> ivs[i][2]]]

CompsegsTables == {CompsegsOf(ivs) : ivs \in SeqsUpTo(Intervals, MaxComp) \ {<<>>}}

\* A WELSEGS table: row i is segment i + 1, whose outlet is segment i.
WelsegsOf(mds) ==
    [i \in 1..Len(mds) |->
        [TUBINGSEGMENT |-> i + 1, TUBINGOUTLET |-> i, TUBINGMD |-> mds[i],
         TUBINGTVD |-> mds[i], TUBINGID |-> 1]]

MdWelsegsTables == {WelsegsOf(mds) : mds \in [1..MaxRows -> 1..(MaxDepth + 1)]}

Sections == {"tubing", "device", "annulus"}

\* The segment lists asked for: every row of the table, or all but the first
\* row together with an id the table does not hold.
MdSegmentLists == {Arange(2, MaxRows + 1), Arange(3, MaxRows + 2)}

\* COMPDAT tables that list the first cell once, or twice.
MdCompdatTables ==
    {<<[I |-> 1, J |-> 1, K |-> 1, CF |-> "2.5", KH |-> "100.0"]>>,
     <<[I |-> 1, J |-> 1, K |-> 1, CF |-> "2.5", KH |-> "100.0"],
       [I |-> 1, J |-> 1, K |-> 1, CF |-> "3.5", KH |-> "200.0"]>>}

\* Calls on any COMPSEGS without a COMPDAT, for the first branch in any
\* section and for the second branch in the tubing section (the walk over
\* the branches does not read the section), and tubing calls for the first
\* branch of a COMPSEGS of one or two entries with a COMPDAT.
MdInit ==
    /\ pc = "start"
    /\ welsegs_table \in MdWelsegsTables
    /\ \/ /\ compsegs_table \in CompsegsTables
          /\ compdat_table = <<>>
          /\ call \in [segment : MdSegmentLists, lateral : {1}, section : Sections]
                       \cup [segment : MdSegmentLists, lateral : {2}, section : {"tubing"}]
       \/ /\ compsegs_table \in {t \in CompsegsTables : Len(t) <= 2}
          /\ compdat_table \in MdCompdatTables
          /\ call \in [segment : MdSegmentLists,
                       lateral : {1},
                       section : {"tubing"}]
    /\ eclipse_days = <<>>
    /\ ret = NoValue
    /\ again = NoValue
    /\ MainIdle

\* The tables a call of get_md leaves in the object.
MdTables(result) ==
    /\ welsegs_table' = CopyDeep(welsegs_table, WelsegsKept(welsegs_table, call.segment))
    /\ compsegs_table' = CopyDeep(compsegs_table, result.compsegs)
    /\ UNCHANGED compdat_table

GetMd ==
    /\ pc = "start"
    /\ pc' = "done"
    /\ \E r \in {get_md(welsegs_table, compsegs_table, compdat_table,
                         call.segment, call.lateral, call.section)} :
          ret' = r /\ MdTables(r)
    /\ UNCHANGED <<eclipse_days, call, again>>
    /\ UNCHANGED main_vars

\* The same call once more, on the object the first call has left.
GetMdAgain ==
    /\ pc = "done"
    /\ pc' = "twice"
    /\ \E r \in {get_md(welsegs_table, compsegs_table, compdat_table,
                         call.segment, call.lateral, call.section)} :
          again' = r /\ MdTables(r)
    /\ UNCHANGED <<eclipse_days, call, ret>>
    /\ UNCHANGED main_vars

MdNext == GetMd \/ GetMdAgain

SpecMd == MdInit /\ [][MdNext]_vars

(***************************************************************************)
(* The get_packer runs: a WELSEGS table of the annulus layer and the       *)
(* annulus_segment array get_info_per_well makes of the ANNULUSSEGMENT     *)
(* column: np.zeros(1) for '1*', np.arange(start, end + 1) for start-end.  *)
(***************************************************************************)
\* Row i is segment i + 1; its outlet is the segment of the row before it or
\* segment 1; its true vertical depth is its measured depth plus 10.
PackerRowChoices(i) ==
    [TUBINGSEGMENT : {i + 1}, TUBINGOUTLET : {i, 1}, TUBINGMD : 1..(MaxDepth + 1),
     TUBINGTVD : {0}, TUBINGID : {1}]

WithTvd(row) == [row EXCEPT !.TUBINGTVD = row.TUBINGMD + 10]

PackerWelsegsTables ==
    UNION {{[i \in 1..n |-> WithTvd(t[i])] :
               t \in {u \in [1..n -> UNION {PackerRowChoices(i) : i \in 1..n}] :
                         \A i \in 1..n : u[i] \in PackerRowChoices(i)}} :
           n \in 0..MaxAnnulus}

AnnulusSegmentArrays ==
    {Zeros1} \cup {Arange(a, b) : a \in 2..(MaxAnnulus + 2), b \in 1..(MaxAnnulus + 2)}

PackerInit ==
    /\ pc = "start"
    /\ welsegs_table \in PackerWelsegsTables
    /\ compsegs_table = <<>>
    /\ compdat_table = <<>>
    /\ eclipse_days = <<>>
    /\ call \in [annulus_segment : AnnulusSegmentArrays]
    /\ ret = NoValue
    /\ again = NoValue
    /\ MainIdle

GetPacker ==
    /\ pc = "start"
    /\ pc' = "done"
    /\ ret' = get_packer(welsegs_table, call.annulus_segment)
    /\ UNCHANGED <<welsegs_table, compsegs_table, compdat_table, eclipse_days, call, again>>
    /\ UNCHANGED main_vars

PackerNext == GetPacker

SpecPacker == PackerInit /\ [][PackerNext]_vars

(***************************************************************************)
(* The get_day_index runs: the report days of a summary (increasing) and   *)
(* the days of the DAYS column.                                            *)
(***************************************************************************)
EclipseDays ==
    {SortedSeq(S) : S \in SUBSET (0..MaxDay) \ {{}}}

RequestedDays == SeqsUpTo(0..MaxDay, MaxReq) \ {<<>>}

DayInit ==
    /\ pc = "start"
    /\ welsegs_table = <<>>
    /\ compsegs_table = <<>>
    /\ compdat_table = <<>>
    /\ eclipse_days \in EclipseDays
    /\ call \in [list_of_days : RequestedDays]
    /\ ret = NoValue
    /\ again = NoValue
    /\ MainIdle

GetDayIndex ==
    /\ pc = "start"
    /\ pc' = "done"
    /\ \E idx \in DayIndexResults(eclipse_days, call.list_of_days) :
          ret' = [day_idx |-> idx,
                  warnings |-> DayWarnings(eclipse_days, call.list_of_days)]
    /\ UNCHANGED <<welsegs_table, compsegs_table, compdat_table, eclipse_days, call, again>>
    /\ UNCHANGED main_vars

DayNext == GetDayIndex

SpecDay == DayInit /\ [][DayNext]_vars

(***************************************************************************)
(* The get_info_per_well runs: a table of one row whose segment columns    *)
(* hold '1*' or a text of one, two or three parts.                         *)
(***************************************************************************)
InfoBounds == {2, WellSize, WellSize + 1}

InfoTexts ==
    {Star, Text(<<2>>), Text(<<2, WellSize, WellSize + 1>>)}
    \cup {Text(<<first, last>>) : first \in InfoBounds, last \in InfoBounds}

InfoInit ==
    /\ pc = "start"
    /\ welsegs_table = <<>>
    /\ compsegs_table = <<>>
    /\ compdat_table = <<>>
    /\ eclipse_days = <<>>
    /\ information \in {<<row>> : row \in [WELL : {"W1"}, LATERAL : {1},
                                            TUBINGSEGMENT : InfoTexts,
                                            DEVICESEGMENT : InfoTexts,
                                            ANNULUSSEGMENT : InfoTexts,
                                            DAYS : {Text(<<2>>)}]}
    /\ call = [well |-> "W1", lateral |-> 1]
    /\ ret = NoValue
    /\ again = NoValue
    /\ ObjectIdle

GetInfoPerWell ==
    /\ pc = "start"
    /\ pc' = "done"
    /\ ret' = get_info_per_well(information, call.well, call.lateral)
    /\ UNCHANGED <<welsegs_table, compsegs_table, compdat_table, eclipse_days, call, again>>
    /\ UNCHANGED main_vars

InfoNext == GetInfoPerWell

SpecInfo == InfoInit /\ [][InfoNext]_vars

(***************************************************************************)
(* The runs of main, lines 1690-1817.  Every case file of a run has the    *)
(* same well and the same report days; the summaries differ.  The well has *)
(* WellSize tubing segments 2..WellSize+1 ten depth steps apart, a device  *)
(* segment on each of them one step deeper, and an annulus segment at each *)
(* device; the deepest annulus segment lies behind a packer.  COMPSEGS has *)
(* one cell around each tubing segment.  The plotting calls and the        *)
(* well-level profile of get_well_profile are left out.                    *)
(***************************************************************************)
TubingRow(k) ==
    [TUBINGSEGMENT |-> k + 1, TUBINGOUTLET |-> k, TUBINGMD |-> 10 * k,
     TUBINGTVD |-> 10 * k, TUBINGID |-> 1]

DeviceRow(k) ==
    [TUBINGSEGMENT |-> WellSize + 1 + k, TUBINGOUTLET |-> k + 1, TUBINGMD |-> 10 * k + 1,
     TUBINGTVD |-> 10 * k, TUBINGID |-> 1]

AnnulusRow(k) ==
    [TUBINGSEGMENT |-> 2 * WellSize + 1 + k,
     TUBINGOUTLET |-> IF k = 1 \/ k = WellSize THEN WellSize + 1 + k ELSE 2 * WellSize + k,
     TUBINGMD |-> 10 * k + 1, TUBINGTVD |-> 10 * k, TUBINGID |-> 1]

WellWelsegs ==
    [k \in 1..WellSize |-> TubingRow(k)] \o [k \in 1..WellSize |-> DeviceRow(k)]
        \o [k \in 1..WellSize |-> AnnulusRow(k)]

\* The well with short segments: tubing segments one depth step apart, in
\* the first cell, each device and annulus segment one step deeper than its
\* tubing segment.
ShortWelsegs ==
    [k \in 1..WellSize |-> [TubingRow(k) EXCEPT !.TUBINGMD = 10 + k, !.TUBINGTVD = 10 + k]]
        \o [k \in 1..WellSize |->
               [DeviceRow(k) EXCEPT !.TUBINGMD = 11 + k, !.TUBINGTVD = 10 + k]]
        \o [k \in 1..WellSize |->
               [AnnulusRow(k) EXCEPT !.TUBINGMD = 11 + k, !.TUBINGTVD = 10 + k]]

\* The well with the rows of its first two tubing segments in the other
\* order.
ReorderedWelsegs ==
    <<TubingRow(2), TubingRow(1)>> \o [k \in 1..(WellSize - 2) |-> TubingRow(k + 2)]
        \o [k \in 1..WellSize |-> DeviceRow(k)]
        \o [k \in 1..WellSize |-> AnnulusRow(k)]

\* The well with its annulus segments offset steps deeper than its devices.
WellWelsegsAt(offset) ==
    [k \in 1..WellSize |-> TubingRow(k)] \o [k \in 1..WellSize |-> DeviceRow(k)]
        \o [k \in 1..WellSize |->
               [AnnulusRow(k) EXCEPT !.TUBINGMD = @ + offset, !.TUBINGTVD = @ + offset]]

WellCompsegs ==
    [k \in 1..WellSize |->
        [I |-> k, J |-> 1, K |-> 1, STARTMD |-> 10 * k - 5, ENDMD |-> 10 * k + 5]]

WellDays == <<0, 2, 4>>

\* The vectors of the well: a base rate per tubing segment and per device
\* segment; an annulus segment carries the two together.
WellStore(tubing, device) ==
    [vectors |-> Range(list_keywords) \X (1..(3 * WellSize + 1)),
     rate |-> [seg \in 2..(3 * WellSize + 1) |->
                  IF seg <= WellSize + 1 THEN tubing[seg - 1]
                  ELSE IF seg <= 2 * WellSize + 1 THEN device[seg - WellSize - 1]
                  ELSE tubing[seg - 2 * WellSize - 1] + device[seg - 2 * WellSize - 1]]]

\* Tubing rates do not grow with depth; device rates are free.
TubingProfiles ==
    {p \in [1..WellSize -> 0..MaxRate] : \A k \in 1..(WellSize - 1) : p[k] >= p[k + 1]}

DeviceProfiles == [1..WellSize -> 0..MaxRate]

Stores == {WellStore(t, d) : t \in TubingProfiles, d \in DeviceProfiles}

BaseStore == WellStore([k \in 1..WellSize |-> 0], [k \in 1..WellSize |-> MaxRate])

\* The columns of a row of INFORMATION: '1*', a whole range, a range one
\* segment short, or a single number.
TubingTexts ==
    {Star, Text(<<2>>), Text(<<2, WellSize + 1>>), Text(<<2, WellSize>>)}

DeviceTexts ==
    {Star, Text(<<WellSize + 2, 2 * WellSize + 1>>), Text(<<WellSize + 2, 2 * WellSize>>)}

AnnulusTexts == {Star, Text(<<2 * WellSize + 2, 3 * WellSize + 1>>)}

DaysTexts == {Text(<<2>>), Text(<<0, 3>>)}

\* Row i of the table is for lateral i of the well.
InformationRows(i, days) ==
    [WELL : {"W1"}, LATERAL : {i}, TUBINGSEGMENT : TubingTexts,
     DEVICESEGMENT : DeviceTexts, ANNULUSSEGMENT : AnnulusTexts, DAYS : {days}]

\* The tables of n rows; the rows of a table ask for the same days, as they
\* do after the -day option (line 1830).
InformationTables(n) ==
    UNION {{t \in [1..n -> UNION {InformationRows(i, days) : i \in 1..n}] :
               \A i \in 1..n : t[i] \in InformationRows(i, days)} : days \in DaysTexts}

\* The tables of n rows without annulus layer.
PlainTables(n) == {t \in InformationTables(n) : \A i \in 1..n : t[i].ANNULUSSEGMENT = Star}

\* COMPDAT: each cell of the well is left out, or has numbers for CF and KH,
\* or has the default mark '1*' for CF.
CompdatRows(k) ==
    {<<>>,
     <<[I |-> k, J |-> 1, K |-> 1, CF |-> "2.5", KH |-> "100.0"]>>,
     <<[I |-> k, J |-> 1, K |-> 1, CF |-> "1*", KH |-> "100.0"]>>}

CompdatTables ==
    {Flatten(t) : t \in {u \in [1..WellSize -> UNION {CompdatRows(k) : k \in 1..WellSize}] :
                             \A k \in 1..WellSize : u[k] \in CompdatRows(k)}}

\* The base vectors without those of one keyword, or without the vector of
\* one keyword for one segment.
PartialStores ==
    {[BaseStore EXCEPT !.vectors = {v \in @ : v[1] # keyword}] :
        keyword \in Range(list_keywords)}
    \cup {[BaseStore EXCEPT !.vectors = @ \ {v}] : v \in BaseStore.vectors}

\* The base vectors with tubing rates that grow somewhere with depth.
RisingStores ==
    {WellStore(t, [k \in 1..WellSize |-> MaxRate]) :
        t \in [1..WellSize -> 0..MaxRate] \ TubingProfiles}

\* A row that names every layer of the well, or every layer but the annulus.
WholeRows ==
    [WELL : {"W1"}, LATERAL : {1}, TUBINGSEGMENT : {Text(<<2, WellSize + 1>>)},
     DEVICESEGMENT : {Text(<<WellSize + 2, 2 * WellSize + 1>>)},
     ANNULUSSEGMENT : AnnulusTexts, DAYS : DaysTexts]

\* Whole rows that ask for a report day and for a day halfway to the next
\* report day, and the summaries they run on: the base vectors, with or
\* without the gas rates.
RepeatRows ==
    [WELL : {"W1"}, LATERAL : {1}, TUBINGSEGMENT : {Text(<<2, WellSize + 1>>)},
     DEVICESEGMENT : {Text(<<WellSize + 2, 2 * WellSize + 1>>)},
     ANNULUSSEGMENT : AnnulusTexts, DAYS : {Text(<<2, 3>>)}]

RepeatStores ==
    {BaseStore, [BaseStore EXCEPT !.vectors = {v \in @ : v[1] # "SGFRF"}]}

\* Tables of one or two whole rows, the second for lateral 2.
WholeTables ==
    {<<row>> : row \in WholeRows}
    \cup {<<row[1], [row[2] EXCEPT !.LATERAL = 2]>> :
             row \in {r \in WholeRows \X WholeRows : r[1].DAYS = r[2].DAYS}}

\* The summaries of a run on two or more case files.
OtherStore == WellStore([k \in 1..WellSize |-> MaxRate], [k \in 1..WellSize |-> 0])

FileLists == UNION {[1..n -> {BaseStore, OtherStore}] : n \in 2..MaxFile}

\* COMPSEGS without the cell of the deepest tubing segment, and tables of
\* rows that name the whole well or the well without its deepest segments.
ShortCompsegs == SubSeq(WellCompsegs, 1, WellSize - 1)

GridRows(i) ==
    {[WELL |-> "W1", LATERAL |-> i, TUBINGSEGMENT |-> Text(<<2, last + 1>>),
      DEVICESEGMENT |-> Text(<<WellSize + 2, WellSize + last + 1>>),
      ANNULUSSEGMENT |-> Star, DAYS |-> Text(<<2>>)] : last \in {WellSize - 1, WellSize}}

GridTables ==
    {<<row>> : row \in GridRows(1)}
    \cup {<<row[1], row[2]>> : row \in GridRows(1) \X GridRows(2)}

\* Rows whose annulus column gives fewer than two segments: '1*', a range
\* of one segment, a range of none.
FewAnnulusRows ==
    [WELL : {"W1"}, LATERAL : {1}, TUBINGSEGMENT : {Text(<<2, WellSize + 1>>)},
     DEVICESEGMENT : {Text(<<WellSize + 2, 2 * WellSize + 1>>)},
     ANNULUSSEGMENT : {Star, Text(<<2 * WellSize + 2, 2 * WellSize + 2>>),
                       Text(<<2 * WellSize + 3, 2 * WellSize + 2>>)},
     DAYS : DaysTexts]

\* Rows that name the whole tubing and device layers and an annulus layer
\* from position first to position last of the well, and the summaries
\* they run on: any device rates over tubing rates of zero.
AnnulusRows ==
    {[WELL |-> "W1", LATERAL |-> 1, TUBINGSEGMENT |-> Text(<<2, WellSize + 1>>),
      DEVICESEGMENT |-> Text(<<WellSize + 2, 2 * WellSize + 1>>),
      ANNULUSSEGMENT |-> Text(<<2 * WellSize + 1 + span[1], 2 * WellSize + 1 + span[2]>>),
      DAYS |-> Text(<<2>>)] :
        span \in {p \in (1..WellSize) \X (1..WellSize) : p[1] < p[2]}}

AnnulusStores == {WellStore([k \in 1..WellSize |-> 0], d) : d \in DeviceProfiles}

\* Vectors with the same device inflow at every position.
LevelStores ==
    {WellStore([k \in 1..WellSize |-> 0], [k \in 1..WellSize |-> rate]) : rate \in 0..MaxRate}

\* A table of one whole row without annulus layer runs on any vectors; the other tables of one
\* row, and the tables of several rows without annulus layer, run on the
\* base vectors; a table of one whole row runs on any COMPDAT, or on
\* vectors of which some are missing.
MainInit ==
    /\ pc = "get_info_per_well"
    /\ eclipse_days = WellDays
    /\ call = NoValue
    /\ ret = NoValue
    /\ again = NoValue
    /\ eclipse = NoSummary
    /\ ifi = 0
    /\ passes = <<>>
    /\ \/ /\ information \in {<<row>> : row \in {w \in WholeRows : w.ANNULUSSEGMENT = Star}}
          /\ data_file \in {<<store>> : store \in Stores}
          /\ compdat_table = <<>>
          /\ compsegs_table = WellCompsegs
          /\ welsegs_table = WellWelsegs
       \/ /\ information \in InformationTables(1) \cup UNION {PlainTables(n) : n \in 2..MaxInfo}
          /\ data_file = <<BaseStore>>
          /\ compdat_table = <<>>
          /\ compsegs_table = WellCompsegs
          /\ welsegs_table = WellWelsegs
       \/ /\ information \in {<<row>> : row \in WholeRows}
          /\ data_file = <<BaseStore>>
          /\ compdat_table \in CompdatTables
          /\ compsegs_table = WellCompsegs
          /\ welsegs_table = WellWelsegs
       \/ /\ information \in {<<row>> : row \in WholeRows}
          /\ data_file \in {<<store>> : store \in PartialStores}
          /\ compdat_table = <<>>
          /\ compsegs_table = WellCompsegs
          /\ welsegs_table = WellWelsegs
       \/ /\ information \in {<<row>> : row \in WholeRows}
          /\ data_file \in {<<store>> : store \in RisingStores}
          /\ compdat_table = <<>>
          /\ compsegs_table = WellCompsegs
          /\ welsegs_table = WellWelsegs
       \/ /\ information \in {t \in WholeTables : t[1].DAYS = Text(<<2>>)}
          /\ data_file \in FileLists
          /\ compdat_table = <<>>
          /\ compsegs_table = WellCompsegs
          /\ welsegs_table = WellWelsegs
       \/ /\ information \in {<<row>> : row \in FewAnnulusRows}
          /\ data_file \in {<<store>> : store \in {BaseStore, OtherStore}}
          /\ compdat_table = <<>>
          /\ compsegs_table = WellCompsegs
          /\ welsegs_table = WellWelsegs
       \/ /\ information \in {<<row>> : row \in AnnulusRows \cup WholeRows}
          /\ data_file \in {<<store>> : store \in AnnulusStores}
          /\ compdat_table = <<>>
          /\ compsegs_table = WellCompsegs
          /\ welsegs_table = WellWelsegs
       \/ /\ information \in {<<row>> : row \in AnnulusRows}
          /\ data_file \in {<<store>> : store \in LevelStores}
          /\ compdat_table = <<>>
          /\ compsegs_table = WellCompsegs
          /\ welsegs_table \in {WellWelsegsAt(offset) : offset \in 1..MaxOffset} \cup {ShortWelsegs}
       \/ /\ information \in {<<row>> : row \in RepeatRows}
          /\ data_file \in {<<store>> : store \in RepeatStores}
          /\ compdat_table = <<>>
          /\ compsegs_table = WellCompsegs
          /\ welsegs_table = WellWelsegs
       \/ /\ information \in {<<row>> : row \in WholeRows}
          /\ data_file = <<BaseStore>>
          /\ compdat_table = <<>>
          /\ compsegs_table = WellCompsegs
          /\ welsegs_table = ReorderedWelsegs
       \/ /\ information \in GridTables
          /\ data_file = <<BaseStore>>
          /\ compdat_table = <<>>
          /\ compsegs_table = ShortCompsegs
          /\ welsegs_table = WellWelsegs
    /\ output_file = "summary.csv"
    /\ iw = 0
    /\ tubing_segment = <<>>
    /\ device_segment = <<>>
    /\ annulus_segment = <<>>
    /\ my_days = <<>>
    /\ my_days_idx = <<>>
    /\ df_annulus_zone = <<>>
    /\ df_output = <<>>
    /\ df_export = <<>>
    /\ csv = <<>>
    /\ exit = NoExit
    /\ trace = <<>>

\* the attributes of self that get_data reads
Self ==
    [welsegs_table |-> welsegs_table, compsegs_table |-> compsegs_table,
     compdat_table |-> compdat_table, eclipse |-> eclipse,
     tubing_segment |-> tubing_segment, device_segment |-> device_segment,
     annulus_segment |-> annulus_segment, my_days_idx |-> my_days_idx,
     df_annulus_zone |-> df_annulus_zone]

n_file == Len(data_file)

Called(op) == trace' = Append(trace, [op |-> op, iw |-> iw, ifi |-> ifi])

\* The exception ends the loops and the export is written all the same.
RaisedThenWritten(err, op) ==
    /\ pc' = "to_csv"
    /\ exit' = [err |-> err, op |-> op, iw |-> iw]

\* an exception leaves main: nothing of lines 1694-1817 catches any
Raised(err, op) ==
    /\ pc' = "exit"
    /\ exit' = [err |-> err, op |-> op, iw |-> iw]

\* lines 1735-1752: read_data_file, read_well_file and get_info_per_well
MainGetInfoPerWell ==
    /\ pc = "get_info_per_well"
    /\ Called("get_info_per_well")
    /\ eclipse' = data_file[ifi + 1]
    /\ \E r \in {get_info_per_well(information, information[iw + 1].WELL,
                                  information[iw + 1].LATERAL)} :
          IF r.err # NoValue
          THEN /\ Raised(r.err, "get_info_per_well")
               /\ UNCHANGED well_vars
          ELSE /\ pc' = "get_day_index"
               /\ tubing_segment' = r.tubing_segment
               /\ device_segment' = r.device_segment
               /\ annulus_segment' = r.annulus_segment
               /\ my_days' = r.my_days
               /\ UNCHANGED exit
    /\ UNCHANGED <<schedule_vars, eclipse_days, call, ret, again, data_file, ifi, passes,
                   information, output_file, iw, my_days_idx, df_annulus_zone,
                   df_output, df_export, csv>>

\* line 1754
MainGetDayIndex ==
    /\ pc = "get_day_index"
    /\ Called("get_day_index")
    /\ \E idx \in DayIndexResults(eclipse_days, my_days) : my_days_idx' = idx
    /\ pc' = "get_packer"
    /\ UNCHANGED <<schedule_vars, eclipse_days, call, ret, again, eclipse, data_file, ifi,
                   passes, information, output_file, iw, well_vars, df_annulus_zone, df_output,
                   df_export, csv, exit>>

\* lines 1758-1760
MainGetPacker ==
    /\ pc = "get_packer"
    /\ Called("get_packer")
    /\ \E r \in {get_packer(welsegs_table, annulus_segment)} :
          IF r.err # NoValue
          THEN /\ Raised(r.err, "get_packer")
               /\ UNCHANGED df_annulus_zone
          ELSE /\ pc' = "get_data"
               /\ df_annulus_zone' = r.df_annulus_zones
               /\ UNCHANGED exit
    /\ UNCHANGED <<schedule_vars, eclipse_days, call, ret, again, eclipse, data_file, ifi,
                   passes, information, output_file, iw, well_vars, my_days_idx, df_output, df_export, csv>>

\* line 1762
MainGetData ==
    /\ pc = "get_data"
    /\ Called("get_data")
    /\ \E r \in {get_data(Self, information[iw + 1].LATERAL)} :
          IF r.err # NoValue
          THEN /\ Raised(r.err, "get_data")
               /\ UNCHANGED df_output
          ELSE /\ pc' = "export"
               /\ df_output' = r.rows
               /\ UNCHANGED exit
    /\ UNCHANGED <<schedule_vars, eclipse_days, call, ret, again, eclipse, data_file, ifi,
                   passes, information, output_file, iw, well_vars, my_days_idx, df_annulus_zone,
                   df_export, csv>>

\* lines 1767-1770, and the step of the loops of lines 1694 and 1733
MainExport ==
    /\ pc = "export"
    /\ Called("export")
    /\ df_export' = IF iw = 0 THEN df_output ELSE df_export \o df_output
    /\ passes' = Append(passes, df_output)
    /\ IF ifi + 1 < n_file
       THEN /\ ifi' = ifi + 1
            /\ iw' = iw
            /\ pc' = "get_info_per_well"
       ELSE /\ ifi' = 0
            /\ iw' = iw + 1
            /\ pc' = IF iw + 1 < Len(information) THEN "get_info_per_well" ELSE "to_csv"
    /\ UNCHANGED <<schedule_vars, eclipse_days, call, ret, again, eclipse, data_file,
                   information, output_file, well_vars, my_days_idx, df_annulus_zone,
                   df_output, csv, exit>>

\* lines 1816-1817
MainToCsv ==
    /\ pc = "to_csv"
    /\ Called("to_csv")
    /\ csv' = IF output_file # "" THEN df_export ELSE csv
    /\ pc' = "done"
    /\ UNCHANGED <<schedule_vars, eclipse_days, call, ret, again, eclipse, data_file, ifi,
                   passes, information, output_file, iw, well_vars, my_days_idx, df_annulus_zone,
                   df_output, df_export, exit>>

MainNext ==
    \/ MainGetInfoPerWell
    \/ MainGetDayIndex
    \/ MainGetPacker
    \/ MainGetData
    \/ MainExport
    \/ MainToCsv

SpecMain == MainInit /\ [][MainNext]_vars

(***************************************************************************)
(* Properties of get_md, checked under SpecMd.                             *)
(***************************************************************************)
\* The rows of the segment argument, in table order, and the depth looked up
\* for row i of them.
MdSelection == WelsegsIsin(welsegs_table, call.segment)

MdQuery(i) == LookupDepth(call.section, MdSelection[i].MD)

\* The place in the selection of the segment that returned row r names.
SelectedAt(r) == CHOOSE m \in 1..Len(MdSelection) : MdSelection[m].Segment = ret.rows[r].Segment

Contains(c, p) == c.STARTMD <= p /\ p <= c.ENDMD

Holders(comp, p) == {j \in 1..Len(comp) : Contains(comp[j], p)}

\* C1: for every query depth p the lookup of get_md takes the lowest-index
\* interval of its completion list with STARTMD <= p <= ENDMD, both ends
\* included, and the returned row carries that interval's start, end and cell.
C1_FirstContainingInterval ==
    (pc = "done" /\ ret.err = NoValue) =>
        /\ {ret.rows[r].Segment : r \in 1..Len(ret.rows)} =
               {MdSelection[m].Segment : m \in 1..Len(MdSelection)}
        /\ \A r \in 1..Len(ret.rows) :
              LET p == MdQuery(SelectedAt(r))
              IN \E i \in 1..Len(ret.compsegs) :
                    /\ Contains(ret.compsegs[i], p)
                    /\ \A j \in 1..(i - 1) : ~Contains(ret.compsegs[j], p)
                    /\ ret.rows[r].STARTMD = ret.compsegs[i].STARTMD
                    /\ ret.rows[r].ENDMD = ret.compsegs[i].ENDMD
                    /\ ret.rows[r].I = ret.compsegs[i].I
                    /\ ret.rows[r].J = ret.compsegs[i].J
                    /\ ret.rows[r].K = ret.compsegs[i].K

\* A returned row whose depth lies in two intervals (one of them at its end
\* bound) next to a row whose depth lies in exactly one.
C1_Witness ==
    /\ pc = "done"
    /\ ret.err = NoValue
    /\ \E r \in 1..Len(ret.rows) :
          /\ Cardinality(Holders(ret.compsegs, MdQuery(SelectedAt(r)))) >= 2
          /\ \E j \in Holders(ret.compsegs, MdQuery(SelectedAt(r))) :
                ret.compsegs[j].ENDMD = MdQuery(SelectedAt(r))
    /\ \E r \in 1..Len(ret.rows) :
          Cardinality(Holders(ret.compsegs, MdQuery(SelectedAt(r)))) = 1

\* The boundary indices of a COMPSEGS list (0-based, as in the code): i with
\* at least three entries after it, whose STARTMD are all below ENDMD[i].
Boundaries(comp) ==
    {i \in 0..(Len(comp) - 4) :
        \A d \in 1..3 : comp[i + 1 + d].STARTMD < comp[i + 1].ENDMD}

\* The entries branch b is said to consist of: from the entry after boundary
\* b - 1 (entry 0 for b = 1) through boundary b (the last entry for the last
\* branch).
BranchEntries(comp, b) ==
    LET B == SortedSeq(Boundaries(comp))
        first == IF b = 1 THEN 0 ELSE B[b - 1] + 1
        last == IF b = Len(B) + 1 THEN Len(comp) - 1 ELSE B[b]
    IN SubSeq(comp, first + 1, last + 1)

\* C3: for every branch number b with 1 <= b <= |B| + 1, get_md runs its
\* lookup against exactly the entries from the one after boundary b - 1
\* through boundary b; the entry after a boundary belongs to the next branch
\* only.
C3_BranchSubRanges ==
    (pc = "done" /\ call.lateral <= Cardinality(Boundaries(compsegs_table)) + 1) =>
        ret.compsegs = BranchEntries(compsegs_table, call.lateral)

\* C16: a call of get_md for a branch number above the number of branches
\* of the COMPSEGS list (its boundaries plus one) returns no rows and no
\* sub-range of the list: it ends with a BranchNotFound error.
C16_BranchNotFound ==
    (pc = "done" /\ compsegs_table # <<>>
        /\ call.lateral > Cardinality(Boundaries(compsegs_table)) + 1) =>
        /\ ret.err = "BranchNotFound"
        /\ ret.rows = <<>>
        /\ ret.compsegs = <<>>

\* The interval of the role of a section: none for the tubing.
RoleInterval(section) ==
    CASE section = "tubing" -> 0
      [] section = "device" -> device_interval
      [] section = "annulus" -> annulus_interval

\* C19 as stated: every row get_md returns for the device or the annulus
\* section carries the WELSEGS depth of its segment less the interval of
\* the role, and every row for the tubing section the WELSEGS depth itself.
C19_RowsCarryShiftedDepth ==
    (pc = "done" /\ ret.err = NoValue) =>
        \A r \in 1..Len(ret.rows) :
            ret.rows[r].MD = MdSelection[SelectedAt(r)].MD - RoleInterval(call.section)

\* C19 as the code has it: every row get_md returns, for any section,
\* carries the WELSEGS depth of its segment unchanged; the interval of the
\* role is taken off only the depth the cell is looked up at, so the cell
\* of a device or annulus row holds the depth less the interval.
C19_RowsCarryWelsegsDepth ==
    (pc = "done" /\ ret.err = NoValue) =>
        \A r \in 1..Len(ret.rows) :
            LET depth == MdSelection[SelectedAt(r)].MD
            IN /\ ret.rows[r].MD = depth
               /\ ret.rows[r].STARTMD <= depth - RoleInterval(call.section)
               /\ depth - RoleInterval(call.section) <= ret.rows[r].ENDMD

\* A device row whose own depth lies past the end of its cell: the cell was
\* found for the depth less the interval, the row carries the depth itself.
C19_Witness ==
    /\ pc = "done"
    /\ call.section = "device"
    /\ ret.err = NoValue
    /\ \E r \in 1..Len(ret.rows) :
          /\ ret.rows[r].MD = MdSelection[SelectedAt(r)].MD
          /\ ret.rows[r].MD > ret.rows[r].ENDMD
          /\ ret.rows[r].MD - device_interval = ret.rows[r].ENDMD

\* C8: when the lookup depth of some selected segment lies in no interval of
\* the completion list, get_md raises the "is not found inside grid cells"
\* error naming the first such segment in row order, and returns no rows.
C8_MissNamesFirstSegment ==
    pc = "done" =>
        LET out == {i \in 1..Len(MdSelection) :
                       Holders(ret.compsegs, MdQuery(i)) = {}}
        IN out # {} =>
              /\ ret.err = "SegmentNotInGrid"
              /\ ret.segment = MdSelection[Min(out)].Segment
              /\ ret.rows = <<>>

\* Two selected segments miss every interval and a third, before them, hits.
C8_Witness ==
    /\ pc = "done"
    /\ ret.err = "SegmentNotInGrid"
    /\ Cardinality({i \in 1..Len(MdSelection) :
                       Holders(ret.compsegs, MdQuery(i)) = {}}) >= 2

(***************************************************************************)
(* Properties of get_packer, checked under SpecPacker.                     *)
(***************************************************************************)
\* The annulus rows get_packer walks, in its row order.
PackerSelection == AnnulusIsin(welsegs_table, call.annulus_segment)

ZoneOf(i) == ret.df_annulus_zones[i].ANNULUS_ZONE

ZoneIds == {ZoneOf(i) : i \in 1..Len(ret.df_annulus_zones)}

\* C4: for an annulus selection of at least 2 segments the first annulus row
\* is in zone 1, each later row i is in zone[i-1] + 1 when its outlet is not
\* the segment of row i - 1 and in zone[i-1] otherwise; so the zone ids do not
\* decrease along increasing measured depth and take every value from 1 to
\* the largest.
C4_ZonesAlongDepth ==
    (pc = "done" /\ Len(call.annulus_segment) >= 2 /\ ret.err = NoValue) =>
        LET sel == PackerSelection
            n == Len(sel)
        IN /\ Len(ret.df_annulus_zones) = n
           /\ ZoneOf(1) = 1
           /\ \A i \in 2..n :
                 ZoneOf(i) = IF sel[i].TUBINGOUTLET # sel[i - 1].TUBINGSEGMENT
                             THEN ZoneOf(i - 1) + 1
                             ELSE ZoneOf(i - 1)
           /\ \A i, j \in 1..n :
                 sel[i].TUBINGMD < sel[j].TUBINGMD => ZoneOf(i) <= ZoneOf(j)
           /\ ZoneIds = 1..Max(ZoneIds)

\* C5: the packer table get_packer returns has an even number of rows, twice
\* the number of annulus zones (none when no annulus layer is modelled).
C5_PackerTableEven ==
    (pc = "done" /\ ret.err = NoValue) =>
        /\ Len(ret.df_packer) % 2 = 0
        /\ Len(ret.df_packer) = 2 * Cardinality(ZoneIds)

(***************************************************************************)
(* Properties of get_day_index, checked under SpecDay.                     *)
(***************************************************************************)
Distance(i, day) == Abs(eclipse_days[i + 1] - day)

DayIndices == 0..(Len(eclipse_days) - 1)

Closest(day) == {i \in DayIndices : \A j \in DayIndices : Distance(i, day) <= Distance(j, day)}

Holding(day) == {i \in DayIndices : eclipse_days[i + 1] = day}

Unmatched == {k \in 1..Len(call.list_of_days) : Holding(call.list_of_days[k]) = {}}

OutputRows(section, idx) ==
    LET Pick(row) == row.SECTION = section /\ row.DATE = idx
    IN SelectSeq(df_output, Pick)

Steps == Range(my_days_idx)

RateKeywords == {"SOFR", "SWFR", "SGFRF"}

\* The keyword columns of the frame of the pass.
Carried == Range(KwValid(eclipse))

\* C2: with no annulus layer (ANNULUSSEGMENT '1*'), at every requested step
\* and for the oil, water and gas rates the frame carries, the Reservoir row at tubing position
\* k holds the tubing rate at k minus the tubing rate at k + 1, and the last
\* Reservoir row holds the tubing rate of its own position.
C2_ReservoirFirstDifference ==
    (pc = "export" /\ annulus_segment = Zeros1) =>
        \A idx \in Steps : \A keyword \in RateKeywords \cap Carried :
            LET tubing == OutputRows("Tubing", idx)
                reservoir == OutputRows("Reservoir", idx)
            IN /\ Len(reservoir) = Len(tubing)
               /\ \A k \in 1..Len(tubing) :
                     reservoir[k].val[keyword] =
                         IF k < Len(tubing)
                         THEN tubing[k].val[keyword] - tubing[k + 1].val[keyword]
                         ELSE tubing[k].val[keyword]

\* A pass without an annulus layer over three tubing segments whose oil rate
\* falls between the first two positions and is level over the last two.
C2_Witness ==
    /\ pc = "export"
    /\ "SOFR" \in Carried
    /\ annulus_segment = Zeros1
    /\ \E idx \in Steps :
          LET tubing == OutputRows("Tubing", idx)
              reservoir == OutputRows("Reservoir", idx)
          IN /\ Len(tubing) = 3
             /\ Len(reservoir) = 3
             /\ tubing[1].val["SOFR"] > tubing[2].val["SOFR"]
             /\ tubing[2].val["SOFR"] = tubing[3].val["SOFR"]
             /\ tubing[3].val["SOFR"] > 0
             /\ reservoir[2].val["SOFR"] = 0
             /\ reservoir[3].val["SOFR"] = tubing[3].val["SOFR"]

RECURSIVE InflowFrom(_, _)
InflowFrom(device, k) ==
    IF k > Len(device) THEN 0
    ELSE device[k].val["SGFRF"] + InflowFrom(device, k + 1)

\* C9: at every requested step of a frame that carries the gas rate, the
\* gas rate of the Tubing row at position k is the sum of the gas rates of the Device rows of that step at the
\* positions k..N.
C9_TubingGasIsDeviceSum ==
    (pc = "export" /\ "SGFRF" \in Carried) =>
        \A idx \in Steps :
            LET tubing == OutputRows("Tubing", idx)
                device == OutputRows("Device", idx)
            IN /\ Len(tubing) = Len(device)
               /\ \A k \in 1..Len(tubing) :
                     tubing[k].val["SGFRF"] = InflowFrom(device, k)

\* A pass over three device segments with unequal gas inflows: the tubing gas
\* rate at the first position is the sum of all three.
C9_Witness ==
    /\ pc = "export"
    /\ "SGFRF" \in Carried
    /\ \E idx \in Steps :
          LET tubing == OutputRows("Tubing", idx)
              device == OutputRows("Device", idx)
          IN /\ Len(device) = 3
             /\ device[1].val["SGFRF"] # device[3].val["SGFRF"]
             /\ tubing[1].val["SGFRF"] =
                    device[1].val["SGFRF"] + device[2].val["SGFRF"] + device[3].val["SGFRF"]
             /\ tubing[3].val["SGFRF"] = device[3].val["SGFRF"]

\* The row of INFORMATION a pass works from, and the calls of a pass.
PassRow(i) == InfoRow(information, information[i + 1].WELL, information[i + 1].LATERAL)

HasCalled(op, i) == \E n \in 1..Len(trace) : trace[n].op = op /\ trace[n].iw = i

\* The pass at work has made the call.
InPass(op) == \E n \in 1..Len(trace) : trace[n] = [op |-> op, iw |-> iw, ifi |-> ifi]

CountsDiffer(row) ==
    /\ WellFormed(row.TUBINGSEGMENT)
    /\ ~row.DEVICESEGMENT.star
    /\ WellFormed(row.DEVICESEGMENT)
    /\ Len(SegmentArray(row.TUBINGSEGMENT)) # Len(SegmentArray(row.DEVICESEGMENT))

\* C7: when the device column of a pass holds a range whose number of
\* segments differs from the number of tubing segments, get_info_per_well
\* raises ValueError, which ends main, and get_data is never called for the
\* pass.
C7_CountMismatchStopsPass ==
    \A i \in 0..(Len(information) - 1) :
        (HasCalled("get_info_per_well", i) /\ CountsDiffer(PassRow(i))) =>
            /\ pc = "exit"
            /\ exit = [err |-> "ValueError", op |-> "get_info_per_well", iw |-> i]
            /\ ~HasCalled("get_day_index", i)
            /\ ~HasCalled("get_data", i)

\* The second pass of a run names three tubing segments and two device
\* segments; the first pass has run get_data and exported its frame.
C7_Witness ==
    /\ pc = "exit"
    /\ exit.iw = 1
    /\ exit.op = "get_info_per_well"
    /\ HasCalled("get_data", 0)
    /\ Len(df_export) > 0
    /\ CountsDiffer(PassRow(1))
    /\ Len(SegmentArray(PassRow(1).TUBINGSEGMENT)) = 3
    /\ Len(SegmentArray(PassRow(1).DEVICESEGMENT)) = 2

Sectioned(section) == {n \in 1..Len(df_output) : df_output[n].SECTION = section}

\* C10: every get_data call of a pass over two or more tubing segments
\* returns with, for every requested step, Tubing rows and one Reservoir row
\* per tubing segment, whether or not a device layer exists; the frame has
\* Device rows only with two or more device segments and Annulus rows only
\* with two or more annulus segments.
C10_TubingAndReservoirRows ==
    \A i \in 0..(Len(information) - 1) :
        (InPass("get_data") /\ i = iw /\ Len(tubing_segment) > 1) =>
            /\ pc = "export"
            /\ \A idx \in Steps :
                  /\ Len(OutputRows("Tubing", idx)) = Len(tubing_segment)
                  /\ Len(OutputRows("Reservoir", idx)) = Len(tubing_segment)
            /\ Sectioned("Device") # {} => Len(device_segment) >= 2
            /\ Sectioned("Annulus") # {} => Len(annulus_segment) >= 2

\* C11: in every section of a frame get_data returns, a row whose water
\* and oil rates sum in absolute value to less than the minimum rate has a
\* water cut of exactly 0, whatever the ratio of the two.
C11_WaterCutFloor ==
    pc = "export" =>
        \A n \in 1..Len(df_output) :
            LET row == df_output[n]
            IN ({"SWFR", "SOFR"} \subseteq DOMAIN row.val
                /\ Abs(row.val["SWFR"]) + Abs(row.val["SOFR"]) < min_rate) =>
                   row.SWCT.kind # "missing" /\ row.SWCT.num = 0

LowRateRows(section) ==
    {n \in 1..Len(df_output) :
        /\ df_output[n].SECTION = section
        /\ {"SWFR", "SOFR"} \subseteq DOMAIN df_output[n].val
        /\ df_output[n].val["SWFR"] # 0
        /\ Abs(df_output[n].val["SWFR"]) + Abs(df_output[n].val["SOFR"]) < min_rate
        /\ df_output[n].SWCT = Zero}

\* A frame with a row of every section whose water rate is not 0, whose
\* rates sum to less than the minimum rate and whose water cut is 0, and
\* with a row above the minimum rate whose water cut is the quotient.
C11_Witness ==
    /\ pc = "export"
    /\ \A section \in {"Device", "Tubing", "Annulus", "Reservoir"} :
          LowRateRows(section) # {}
    /\ \E n \in 1..Len(df_output) :
          df_output[n].SWCT.kind = "quotient" /\ df_output[n].SWCT.num > 0

\* The cell a row of the frame was found in, and its rows in COMPDAT.
CellOf(row) ==
    CHOOSE c \in Range(compsegs_table) : c.STARTMD = row.STARTMD /\ c.ENDMD = row.ENDMD

StaticOf(row) == {d \in Range(compdat_table) : SameCell(d, CellOf(row))}

\* C12: in every row of a frame get_data returns, CF is the COMPDAT value of
\* the row's cell when the cell is in COMPDAT with a number, and 1.0e-10 when
\* the cell is not in COMPDAT or its value is no number; row by row, so that
\* a row with a number keeps it whatever the other cells hold.
C12_StaticPerRow ==
    pc = "export" =>
        \A n \in 1..Len(df_output) :
            LET row == df_output[n]
            IN IF \E d \in StaticOf(row) : Numeric(d.CF)
               THEN \E d \in StaticOf(row) : row.CF = d.CF /\ row.KH = d.KH
               ELSE row.CF = "1.0e-10"

\* The keywords with a vector for every segment the pass reads.
Requested == Range(tubing_segment) \cup Range(device_segment) \cup Range(annulus_segment)

Complete ==
    {keyword \in Range(list_keywords) :
        \A seg \in (Requested \ {0}) \cup {1} : <<keyword, seg>> \in eclipse.vectors}

\* C13: a pass whose summary lacks the vector of a keyword, for the well or
\* for a segment it requests, still gets its frame from get_data: the call
\* returns, and the rows carry the keywords that have all their vectors.
C13_MissingVectorNotFatal ==
    \A i \in 0..(Len(information) - 1) :
        (InPass("get_data") /\ i = iw /\ information[i + 1] \in WholeRows
            /\ Complete # Range(list_keywords)) =>
            /\ pc = "export"
            /\ \A n \in 1..Len(df_output) : Complete \subseteq DOMAIN df_output[n].val

\* C14: whatever the numbers of rows of INFORMATION and of case files, the
\* export table holds, after every completed pass, the rows of the frames
\* of all the passes completed so far, in order: no pass removes or replaces
\* rows an earlier pass has added.
C14_ExportAppendOnly == df_export = Flatten(passes)

\* C15: an exception raised in a pass (a malformed or inconsistent row of
\* INFORMATION, a segment outside the grid cells, or any other) ends main
\* there: the raising call is the last call made, the passes completed are
\* those before it, and nothing is written; the export is written only by
\* a run whose passes have all completed.
C15_FailFast ==
    /\ exit.err # NoValue =>
          /\ pc = "exit"
          /\ csv = <<>>
          /\ trace[Len(trace)] = [op |-> exit.op, iw |-> exit.iw, ifi |-> ifi]
          /\ Len(passes) = exit.iw * n_file + ifi
    /\ HasCalled("to_csv", iw) =>
          /\ exit.err = NoValue
          /\ Len(passes) = Len(information) * n_file

\* The second pass of a run meets a tubing segment outside the grid cells
\* after the first pass has put its frame in the export table.
C15_Witness ==
    /\ pc = "exit"
    /\ exit = [err |-> "SegmentNotInGrid", op |-> "get_data", iw |-> 1]
    /\ Len(information) = 2
    /\ Len(passes) = 1
    /\ Len(df_export) > 0
    /\ csv = <<>>

Malformed(content) == ~content.star /\ Len(content.parts) # 2

\* C18: when the device column or the annulus column of the row is not
\* '1*' and does not split in exactly two parts, get_info_per_well raises
\* (ValueError; SystemExit when the tubing column is malformed as well, that
\* column being read first) and returns no segment arrays and no days.
C18_MalformedColumnRaises ==
    LET row == information[1]
    IN (pc = "done" /\ (Malformed(row.DEVICESEGMENT) \/ Malformed(row.ANNULUSSEGMENT))) =>
          /\ ret.err = IF Malformed(row.TUBINGSEGMENT) THEN "SystemExit" ELSE "ValueError"
          /\ ret.tubing_segment = <<>>
          /\ ret.device_segment = <<>>
          /\ ret.annulus_segment = <<>>
          /\ ret.my_days = <<>>

\* The tubing and device columns hold ranges of one length and the annulus
\* column a text of three parts: the call raises the ValueError of the
\* annulus column.
C18_Witness ==
    LET row == information[1]
    IN /\ pc = "done"
       /\ row.TUBINGSEGMENT = Text(<<2, WellSize + 1>>)
       /\ row.DEVICESEGMENT = Text(<<2, WellSize + 1>>)
       /\ Len(row.ANNULUSSEGMENT.parts) = 3
       /\ ret.err = "ValueError"
       /\ ret.msg = "Annulus Segment must be defined"
       /\ ret.annulus_segment = <<>>

\* A pass of a run on one case file with all its vectors, the whole grid
\* and no COMPDAT, over a row that names the device layer.
PlainPass ==
    /\ n_file = 1
    /\ Complete = Range(list_keywords)
    /\ compsegs_table = WellCompsegs
    /\ compdat_table = <<>>
    /\ Len(device_segment) > 1

\* C20: in a pass whose annulus column gives fewer than two segments ('1*',
\* a range of one segment or a range of none), get_packer leaves no zones,
\* get_data returns a frame without Annulus rows, and the Reservoir rows of
\* the frame hold the first differences of the Tubing rates.
C20_NoAnnulusLayer ==
    (InPass("get_data") /\ PlainPass /\ Len(annulus_segment) < 2) =>
        /\ pc = "export"
        /\ df_annulus_zone = <<>>
        /\ Sectioned("Annulus") = {}
        /\ \A idx \in Steps : \A keyword \in RateKeywords :
              LET tubing == OutputRows("Tubing", idx)
                  reservoir == OutputRows("Reservoir", idx)
              IN /\ Len(reservoir) = Len(tubing)
                 /\ \A k \in 1..Len(tubing) :
                       reservoir[k].val[keyword] =
                           tubing[k].val[keyword]
                               - (IF k < Len(tubing) THEN tubing[k + 1].val[keyword] ELSE 0)

(***************************************************************************)
(* Properties of the passes with an annulus layer, checked under SpecMain. *)
(* The Device rows of a step are in depth order; a Reservoir row of the   *)
(* step reports the inflow of the device position nearest to its depth.    *)
(***************************************************************************)
AnnulusPass == pc = "export" /\ Len(annulus_segment) > 1

\* The annulus rows at or below device row i of the step, and the nearest.
Deeper(idx, i) ==
    {j \in 1..Len(OutputRows("Annulus", idx)) :
        OutputRows("Annulus", idx)[j].MD >= OutputRows("Device", idx)[i].MD}

SampleOf(idx, i) == OutputRows("Annulus", idx)[Min(Deeper(idx, i))]

Near(idx, i) ==
    /\ Deeper(idx, i) # {}
    /\ SampleOf(idx, i).MD - OutputRows("Device", idx)[i].MD <= 1

\* The zone get_packer gave a segment of the annulus layer.
PackerZone(seg) ==
    (CHOOSE z \in Range(df_annulus_zone) : z.SEGMENT = seg).ANNULUS_ZONE

ZoneAt(idx, i) == IF Near(idx, i) THEN PackerZone(SampleOf(idx, i).SEGMENT) ELSE 0

AnnulusRateAt(idx, i, keyword) ==
    IF Near(idx, i) THEN SampleOf(idx, i).val[keyword] ELSE 0

\* The device rows of the zone of row i above and below it.
Above(idx, i) == {j \in 1..(i - 1) : ZoneAt(idx, j) = ZoneAt(idx, i)}

Below(idx, i) ==
    {j \in (i + 1)..Len(OutputRows("Device", idx)) : ZoneAt(idx, j) = ZoneAt(idx, i)}

NextAnnulusRate(idx, i, keyword) ==
    IF Below(idx, i) = {} THEN 0 ELSE AnnulusRateAt(idx, Min(Below(idx, i)), keyword)

\* The device row of the step nearest to Reservoir row r, the shallower of
\* two equally near.
DeviceOf(idx, r) ==
    LET device == OutputRows("Device", idx)
        Gap(i) == Abs(device[i].MD - OutputRows("Reservoir", idx)[r].MD)
    IN CHOOSE i \in 1..Len(device) :
          \A j \in 1..Len(device) : Gap(i) < Gap(j) \/ (Gap(i) = Gap(j) /\ i <= j)

\* C21 as stated: in a pass with an annulus layer, the Reservoir rate at
\* every position of a zone other than zone 0 is the annulus rate there,
\* less the annulus rate at the next deeper position of the zone (0 at the
\* deepest), plus the device rate there.
C21_ZoneInflowEverywhere ==
    AnnulusPass =>
        \A idx \in Steps : \A keyword \in RateKeywords \cap Carried :
            \A r \in 1..Len(OutputRows("Reservoir", idx)) :
                LET i == DeviceOf(idx, r)
                IN ZoneAt(idx, i) # 0 =>
                    OutputRows("Reservoir", idx)[r].val[keyword] =
                        AnnulusRateAt(idx, i, keyword) - NextAnnulusRate(idx, i, keyword)
                            + OutputRows("Device", idx)[i].val[keyword]

\* C21 as the code has it: the rule holds at every position of the zone but
\* the shallowest, where the annulus rate of the position itself is left
\* out: the rate there is the device rate less the annulus rate at the next
\* deeper position of the zone.
C21_ZoneInflowBelowFirst ==
    AnnulusPass =>
        \A idx \in Steps : \A keyword \in RateKeywords \cap Carried :
            \A r \in 1..Len(OutputRows("Reservoir", idx)) :
                LET i == DeviceOf(idx, r)
                IN ZoneAt(idx, i) # 0 =>
                    OutputRows("Reservoir", idx)[r].val[keyword] =
                        (IF Above(idx, i) = {} THEN 0 ELSE AnnulusRateAt(idx, i, keyword))
                            - NextAnnulusRate(idx, i, keyword)
                            + OutputRows("Device", idx)[i].val[keyword]

\* A zone of two positions with oil in the annulus at both: the Reservoir
\* rate at the shallower is the device rate less the annulus rate of the
\* deeper, the rate at the deeper the annulus rate plus the device rate.
C21_Witness ==
    /\ AnnulusPass
    /\ "SOFR" \in Carried
    /\ \E idx \in Steps :
          /\ Len(OutputRows("Device", idx)) >= 2
          /\ ZoneAt(idx, 1) # 0
          /\ Below(idx, 1) = {2}
          /\ AnnulusRateAt(idx, 1, "SOFR") > 0
          /\ AnnulusRateAt(idx, 2, "SOFR") > 0
          /\ OutputRows("Reservoir", idx)[1].val["SOFR"] =
                 OutputRows("Device", idx)[1].val["SOFR"] - AnnulusRateAt(idx, 2, "SOFR")
          /\ OutputRows("Reservoir", idx)[2].val["SOFR"] =
                 AnnulusRateAt(idx, 2, "SOFR") + OutputRows("Device", idx)[2].val["SOFR"]

\* The zone the Reservoir rate at device row i of the step was computed
\* in: rows of zone 0 hold the device rate; the shallowest row of another
\* zone holds the device rate less the annulus rate of the next row of the
\* zone; any other row holds the annulus rate there besides.
RateInZone(idx, i, keyword, zone) ==
    LET members == {j \in 1..Len(OutputRows("Device", idx)) : ZoneAt(idx, j) = zone}
        below == {j \in members : j > i}
        above == {j \in members : j < i}
        device == OutputRows("Device", idx)[i].val[keyword]
        next == IF below = {} THEN 0 ELSE AnnulusRateAt(idx, Min(below), keyword)
    IN IF zone = 0 THEN device
       ELSE IF above = {} THEN device - next
       ELSE AnnulusRateAt(idx, i, keyword) - next + device

\* C22: in a pass with an annulus layer every device position is in the
\* zone of the nearest annulus segment at or below it when that segment
\* lies no more than 0.1 deeper, and in zone 0 otherwise (a segment further
\* down, or none); the Reservoir rate at a position of zone 0 is its device
\* rate.
C22_ForwardMatchWithinTolerance ==
    AnnulusPass =>
        \A idx \in Steps : \A keyword \in RateKeywords \cap Carried :
            \A r \in 1..Len(OutputRows("Reservoir", idx)) :
                LET i == DeviceOf(idx, r)
                    device == OutputRows("Device", idx)[i]
                    deeper == {a \in Range(OutputRows("Annulus", idx)) : a.MD >= device.MD}
                    nearest == CHOOSE a \in deeper : \A b \in deeper : a.MD <= b.MD
                    zone == IF deeper = {} \/ nearest.MD - device.MD > 1 THEN 0
                            ELSE PackerZone(nearest.SEGMENT)
                IN /\ OutputRows("Reservoir", idx)[r].val[keyword] =
                          RateInZone(idx, i, keyword, zone)
                   /\ zone = 0 =>
                          OutputRows("Reservoir", idx)[r].val[keyword] = device.val[keyword]

\* A pass whose annulus segments lie exactly 0.1 below their devices, with
\* oil in the annulus at the second position, so that the first position
\* is within the tolerance and its Reservoir rate is not the device rate;
\* the last device has no annulus segment at or below it and its Reservoir
\* rate is the device rate.
C22_Witness ==
    /\ AnnulusPass
    /\ "SOFR" \in Carried
    /\ \E idx \in Steps :
          LET device == OutputRows("Device", idx)
              annulus == OutputRows("Annulus", idx)
              reservoir == OutputRows("Reservoir", idx)
          IN /\ Len(device) = Len(annulus) + 1
             /\ annulus[1].MD - device[1].MD = 1
             /\ ZoneAt(idx, 1) # 0
             /\ reservoir[1].val["SOFR"] # device[1].val["SOFR"]
             /\ ZoneAt(idx, Len(device)) = 0
             /\ reservoir[Len(device)].val["SOFR"] = device[Len(device)].val["SOFR"]

\* A pass whose annulus segments lie 0.2 below their devices: every device
\* position is in zone 0.
C22_BeyondTolerance ==
    /\ AnnulusPass
    /\ \E idx \in Steps :
          /\ OutputRows("Annulus", idx)[1].MD - OutputRows("Device", idx)[1].MD = 2
          /\ \A i \in 1..Len(OutputRows("Device", idx)) : ZoneAt(idx, i) = 0

\* The rows of the frame with a water rate and an oil rate.
CutRows == {n \in 1..Len(df_output) : {"SWFR", "SOFR"} \subseteq DOMAIN df_output[n].val}

\* C23 as stated: the water cut of a row is 0 exactly when its water rate
\* and its oil rate are each below the minimum rate in absolute value.
C23_FloorOnEachRate ==
    pc = "export" =>
        \A n \in CutRows :
            LET val == df_output[n].val
            IN df_output[n].SWCT = Zero <=>
                   (Abs(val["SWFR"]) < min_rate /\ Abs(val["SOFR"]) < min_rate)

\* C23: the water cut of a row is 0 exactly when the absolute water rate
\* and the absolute oil rate sum to less than the minimum rate, and
\* otherwise it is |water| over |water| + |oil| (+ 1e-5); the gas-oil ratio
\* of a row with a gas rate is |gas| over |oil| (+ 1e-5).
C23_FloorOnRateSum ==
    pc = "export" =>
        \A n \in CutRows :
            LET val == df_output[n].val
                water == Abs(val["SWFR"])
                oil == Abs(val["SOFR"])
            IN /\ df_output[n].SWCT =
                      IF water + oil < min_rate THEN Zero
                      ELSE Quotient(water, water + oil)
               /\ "SGFRF" \in DOMAIN val =>
                      df_output[n].SGOR = Quotient(Abs(val["SGFRF"]), oil)

\* A frame with a row whose water and oil rates are each below the minimum
\* rate and sum to it or more, whose water cut is the quotient, and with a
\* row whose rates sum to less, whose water cut is 0.
C23_Witness ==
    /\ pc = "export"
    /\ \E n \in CutRows :
          LET val == df_output[n].val
          IN /\ Abs(val["SWFR"]) < min_rate /\ Abs(val["SOFR"]) < min_rate
             /\ Abs(val["SWFR"]) + Abs(val["SOFR"]) >= min_rate
             /\ df_output[n].SWCT = Quotient(Abs(val["SWFR"]),
                                             Abs(val["SWFR"]) + Abs(val["SOFR"]))
             /\ "SGFRF" \in DOMAIN val
    /\ \E n \in CutRows : df_output[n].SWCT = Zero /\ df_output[n].val["SWFR"] # 0

\* The two depths of annulus row i as an entry of the packer table.
DepthsOf(i) ==
    [PACKERMD |-> PackerSelection[i].TUBINGMD, PACKERTVD |-> PackerSelection[i].TUBINGTVD]

\* The entries for the zone boundaries among the annulus rows up to row i.
RECURSIVE Crossings(_)
Crossings(i) ==
    IF i < 2 THEN <<>>
    ELSE Crossings(i - 1)
         \o (IF ZoneOf(i) = ZoneOf(i - 1) + 1 THEN <<DepthsOf(i - 1), DepthsOf(i)>>
             ELSE <<>>)

\* C24: for an annulus layer of at least 2 segments the packer table of
\* get_packer is the depth of the first annulus row, then for every row i
\* whose zone id is one more than that of row i - 1 the depth of row i - 1
\* and the depth of row i, then the depth of the last annulus row; every
\* entry is the measured depth and the true vertical depth of one row.
C24_PackerTableOrder ==
    (pc = "done" /\ Len(PackerSelection) >= 2) =>
        /\ ret.err = NoValue
        /\ ret.df_packer =
               <<DepthsOf(1)>> \o Crossings(Len(PackerSelection))
                   \o <<DepthsOf(Len(PackerSelection))>>

\* An annulus layer of three rows at depths that are not in order, with a
\* zone boundary between two of them: a packer table of four entries.
C24_Witness ==
    /\ pc = "done"
    /\ Len(PackerSelection) = 3
    /\ Len(ret.df_packer) = 4
    /\ ZoneOf(3) = 2
    /\ PackerSelection[1].TUBINGMD > PackerSelection[2].TUBINGMD
    /\ PackerSelection[2].TUBINGMD # PackerSelection[3].TUBINGMD

\* C25: when the tubing column of the row is not '1*' and does not split in
\* exactly two parts, get_info_per_well prints its 'Error :' message about
\* the tubing segments, returns no segment arrays and no days, and ends the
\* process with a status that is not the status 0 of a successful run.
C25_MalformedTubingFails ==
    (pc = "done" /\ Malformed(information[1].TUBINGSEGMENT)) =>
        /\ ret.err # NoValue
        /\ ret.msg = "Tubing Segment must be defined"
        /\ ret.tubing_segment = <<>>
        /\ ret.device_segment = <<>>
        /\ ret.annulus_segment = <<>>
        /\ ret.my_days = <<>>
        /\ ExitStatus(ret.err) # 0

\* The part of C25 the code keeps: the message, and nothing returned.
C25_MalformedTubingExits ==
    (pc = "done" /\ Malformed(information[1].TUBINGSEGMENT)) =>
        /\ ret.err = "SystemExit"
        /\ ret.msg = "Tubing Segment must be defined"
        /\ ret.tubing_segment = <<>>
        /\ ret.my_days = <<>>

\* The sum of the keyword column over the rows from row k on.
RECURSIVE SumFrom(_, _, _)
SumFrom(rows, keyword, k) ==
    IF k > Len(rows) THEN 0
    ELSE rows[k].val[keyword] + SumFrom(rows, keyword, k + 1)

\* C26: in a pass without an annulus layer, at every requested step and for
\* every rate the frame carries, the Reservoir rates of the step sum to the
\* Tubing rate at the first position, whatever the tubing rates are.
C26_ReservoirSumIsTubingTop ==
    (pc = "export" /\ Len(annulus_segment) = 1) =>
        \A idx \in Steps : \A keyword \in RateKeywords \cap Carried :
            /\ OutputRows("Tubing", idx) # <<>>
            /\ SumFrom(OutputRows("Reservoir", idx), keyword, 1) =
                   OutputRows("Tubing", idx)[1].val[keyword]

\* A pass without an annulus layer whose tubing oil rate grows from the
\* first position to the second: a negative Reservoir rate at the first
\* position, and Reservoir rates that sum to the first tubing rate.
C26_Witness ==
    /\ pc = "export"
    /\ Len(annulus_segment) = 1
    /\ "SOFR" \in Carried
    /\ \E idx \in Steps :
          LET tubing == OutputRows("Tubing", idx)
              reservoir == OutputRows("Reservoir", idx)
          IN /\ Len(tubing) = WellSize
             /\ tubing[1].val["SOFR"] < tubing[2].val["SOFR"]
             /\ reservoir[1].val["SOFR"] < 0
             /\ SumFrom(reservoir, "SOFR", 1) = tubing[1].val["SOFR"]

\* C27: in a pass with an annulus layer, at every requested step and for
\* every rate the frame carries, the Reservoir rates of the step sum to the
\* sum of the Device rates of the step.
C27_ReservoirSumIsDeviceSum ==
    AnnulusPass =>
        \A idx \in Steps : \A keyword \in RateKeywords \cap Carried :
            SumFrom(OutputRows("Reservoir", idx), keyword, 1) =
                SumFrom(OutputRows("Device", idx), keyword, 1)

\* The balance of C27 in the passes in which every Reservoir row reports
\* the device position of its own rank, as in a well whose tubing segments
\* lie further apart than its devices lie below them.
C27_BalanceOnOwnDevices ==
    AnnulusPass =>
        \A idx \in Steps : \A keyword \in RateKeywords \cap Carried :
            (\A r \in 1..Len(OutputRows("Reservoir", idx)) : DeviceOf(idx, r) = r) =>
                SumFrom(OutputRows("Reservoir", idx), keyword, 1) =
                    SumFrom(OutputRows("Device", idx), keyword, 1)

\* Two of the requested days of the pass have the same report step.
RepeatedStep == \E x, y \in 1..Len(my_days_idx) : x < y /\ my_days_idx[x] = my_days_idx[y]

\* The frame has, in every section of the layers of a whole row without
\* annulus, one row per requested day and segment.
FullBatches ==
    \A section \in {"Device", "Tubing", "Reservoir"} :
        Cardinality(Sectioned(section)) = Len(my_days_idx) * Len(tubing_segment)

\* C28: a pass over a whole row two of whose requested days have the same
\* report step still gets its frame from get_data: the call returns, and
\* the frame has one batch of rows per requested day in every section.
C28_RepeatedStepCompletes ==
    \A i \in 0..(Len(information) - 1) :
        (InPass("get_data") /\ i = iw /\ information[i + 1] \in RepeatRows /\ RepeatedStep) =>
            /\ pc = "export"
            /\ FullBatches

\* The same pass when its requested days have different report steps.
C28_DistinctStepsComplete ==
    \A i \in 0..(Len(information) - 1) :
        (InPass("get_data") /\ i = iw /\ information[i + 1] \in RepeatRows /\ ~RepeatedStep) =>
            /\ pc = "export"
            /\ FullBatches

\* What get_data raises on a repeated step: IndexError in the Tubing
\* section when the frame carries the gas rate, ValueError in the Reservoir
\* section when it does not.
C28_RepeatedStepRaises ==
    \A i \in 0..(Len(information) - 1) :
        (InPass("get_data") /\ i = iw /\ information[i + 1] \in RepeatRows /\ RepeatedStep) =>
            /\ pc = "exit"
            /\ exit.op = "get_data"
            /\ exit.err = IF "SGFRF" \in Carried THEN "IndexError" ELSE "ValueError"

\* The row of WELSEGS for a segment, the depth get_md looks up for it in a
\* section, and the first cell of COMPSEGS that holds a depth.
WelsegsRow(seg) == CHOOSE w \in Range(welsegs_table) : w.TUBINGSEGMENT = seg

DepthLookedUp(section, seg) ==
    IF section \in {"Device", "Annulus"}
    THEN WelsegsRow(seg).TUBINGMD - 1
    ELSE WelsegsRow(seg).TUBINGMD

CellAt(depth) ==
    compsegs_table[Min({c \in 1..Len(compsegs_table) :
                           /\ compsegs_table[c].STARTMD <= depth
                           /\ depth <= compsegs_table[c].ENDMD})]

\* The row of the frame belongs to the segment it names: depth, diameter,
\* cell bounds, and the values read from the summary as they are.
BelongsToSegment(row) ==
    /\ row.MD = WelsegsRow(row.SEGMENT).TUBINGMD
    /\ row.DIAMETER = WelsegsRow(row.SEGMENT).TUBINGID
    /\ row.STARTMD = CellAt(DepthLookedUp(row.SECTION, row.SEGMENT)).STARTMD
    /\ row.ENDMD = CellAt(DepthLookedUp(row.SECTION, row.SEGMENT)).ENDMD
    /\ \A keyword \in DOMAIN row.val :
          (row.SECTION \in {"Device", "Annulus"}
              \/ (row.SECTION = "Tubing" /\ keyword # "SGFRF")) =>
              row.val[keyword] = NumpyVector(eclipse, keyword, row.SEGMENT, row.DATE)

\* C29: in every row of a frame get_data returns, the measured depth, the
\* cell bounds, the diameter and the values read for the row are those of
\* the segment the row names, in whatever order WELSEGS lists its rows.
C29_RowsBelongToSegment ==
    pc = "export" => \A n \in 1..Len(df_output) : BelongsToSegment(df_output[n])

\* WELSEGS lists its segments in the order of their ids.
ListedInOrder ==
    \A i, j \in 1..Len(welsegs_table) :
        i < j => welsegs_table[i].TUBINGSEGMENT < welsegs_table[j].TUBINGSEGMENT

\* The property of C29 for the tables that list their rows in id order.
C29_RowsBelongWhenListedInOrder ==
    (pc = "export" /\ ListedInOrder) =>
        \A n \in 1..Len(df_output) : BelongsToSegment(df_output[n])

\* C30: get_md returns one merged row per selected segment, in the order
\* of the selection, whatever COMPDAT holds, a cell listed twice included.
C30_OneRowPerSegment ==
    (pc = "done" /\ ret.err = NoValue) =>
        /\ Len(ret.rows) = Len(MdSelection)
        /\ \A r \in 1..Len(ret.rows) : ret.rows[r].Segment = MdSelection[r].Segment

\* The cell a returned row was found in has at most one row in COMPDAT.
ListedOnce(row) == Cardinality({d \in 1..Len(compdat_table) : SameCell(compdat_table[d], row)}) <= 1

\* The property of C30 for the calls whose cells are listed at most once.
C30_OneRowWhenListedOnce ==
    (pc = "done" /\ ret.err = NoValue /\ \A r \in 1..Len(ret.rows) : ListedOnce(ret.rows[r])) =>
        /\ Len(ret.rows) = Len(MdSelection)
        /\ \A r \in 1..Len(ret.rows) : ret.rows[r].Segment = MdSelection[r].Segment

====
